---- MODULE Spec2Model ----
(***************************************************************************)
(* Bill analysis dashboard: the rule-based categorizer and the ledger      *)
(* normalizer of src/src/data_processor.py.                                *)
(*                                                                         *)
(* Text is modelled as a sequence of one-character strings, so that        *)
(* lower-casing, trimming, regular-expression search and parsing are       *)
(* computed character by character.  A character outside ASCII is written  *)
(* by its code point ("u5ddd").                                            *)
(***************************************************************************)
EXTENDS Integers, Sequences, FiniteSets, TLC

----------------------------------------------------------------------------
(* Bounds of the model.                                                    *)

\* longest Series handed to auto_categorize on its own
MaxBatch == 2
\* most columns of a raw table whose header row is varied
MaxCols == 4
\* most rows of a raw table whose cells are varied, and of a ledger whose
\* rows are varied
MaxRows == 2
\* most months of a ledger with one transaction a month
MaxMonths == 13
\* most Thread objects one DataCleanup makes
MaxThreads == 2
\* rows of create_sample_data() as called with no argument (500 in the
\* program): enough for three pages of the data preview
SampleRows == 41
\* rows of create_sample_data(100), the scraper's fallback
FallbackRows == 3
\* most scrapes of one process
MaxScrapes == 2

----------------------------------------------------------------------------
(* Characters and strings (Python str).                                    *)

UpperLetters ==
  <<"A","B","C","D","E","F","G","H","I","J","K","L","M",
    "N","O","P","Q","R","S","T","U","V","W","X","Y","Z">>

LowerLetters ==
  <<"a","b","c","d","e","f","g","h","i","j","k","l","m",
    "n","o","p","q","r","s","t","u","v","w","x","y","z">>

Digits == <<"0","1","2","3","4","5","6","7","8","9">>

\* the non-ASCII letters that occur in the rule table and the inputs
CJKLetters ==
  {"u4e00","u5bb6",
   "u4e2d","u5305","u5385","u5403","u5496","u5561","u5564","u5976","u5c0f",
   "u5ddd","u5e97","u6599","u706b","u70e4","u70e7","u7269","u7cd5","u8336",
   "u83dc","u86cb","u9152","u9505","u9762","u98df","u9910","u996d","u996e"}

Range(f) == {f[i] : i \in DOMAIN f}

\* str.isspace for one character
IsSpace(c) == c \in {" ", "\t", "\n", "\r"}

\* the characters the regular expression class \w matches
WordChars ==
  Range(UpperLetters) \cup Range(LowerLetters) \cup Range(Digits)
     \cup {"_"} \cup CJKLetters

IsWord(c) == c \in WordChars

LowerOf ==
  [c \in Range(UpperLetters) |->
     LowerLetters[CHOOSE i \in 1..26 : UpperLetters[i] = c]]

LowerChar(c) == IF c \in DOMAIN LowerOf THEN LowerOf[c] ELSE c

\* str.lower
Lower(s) == [i \in 1..Len(s) |-> LowerChar(s[i])]

\* str.strip: drop the leading and the trailing whitespace
Strip(s) ==
  LET keep == {i \in 1..Len(s) : ~IsSpace(s[i])}
  IN  IF keep = {} THEN <<>>
      ELSE LET lo == CHOOSE i \in keep : \A j \in keep : i <= j
               hi == CHOOSE i \in keep : \A j \in keep : j <= i
           IN  SubSeq(s, lo, hi)

----------------------------------------------------------------------------
(* Regular expressions of the rule table: a literal lower-case body,       *)
(* optionally anchored by \b on either side; re.search with IGNORECASE.    *)

Pat(pre, body, post) == [pre |-> pre, body |-> body, post |-> post]

IsWordAt(s, i) == i \in 1..Len(s) /\ IsWord(s[i])

\* \b at the position between s[i-1] and s[i]
Boundary(s, i) == IsWordAt(s, i - 1) # IsWordAt(s, i)

MatchAt(p, s, i) ==
  /\ i + Len(p.body) - 1 <= Len(s)
  /\ \A k \in 1..Len(p.body) : LowerChar(s[i + k - 1]) = p.body[k]
  /\ p.pre => Boundary(s, i)
  /\ p.post => Boundary(s, i + Len(p.body))

Search(p, s) == \E i \in 1..Len(s) : MatchAt(p, s, i)

\* Series.str.contains of the alternation of the patterns, for one element
ContainsAny(patterns, s) == \E j \in 1..Len(patterns) : Search(patterns[j], s)

category_patterns ==
  << [category |-> <<"F","o","o","d">>, patterns |-> <<
       Pat(TRUE, <<"m","c","d","o","n","a","l","d">>, FALSE),
       Pat(TRUE, <<"s","u","b","w","a","y">>, TRUE),
       Pat(TRUE, <<"s","t","a","r","b","u","c","k","s">>, FALSE),
       Pat(TRUE, <<"k","f","c">>, TRUE),
       Pat(TRUE, <<"p","i","z","z","a"," ","h","u","t">>, FALSE),
       Pat(TRUE, <<"d","o","m","i","n","o">>, FALSE),
       Pat(TRUE, <<"t","a","c","o"," ","b","e","l","l">>, FALSE),
       Pat(TRUE, <<"b","u","r","g","e","r"," ","k","i","n","g">>, FALSE),
       Pat(TRUE, <<"w","e","n","d","y">>, FALSE),
       Pat(FALSE, <<"u","b","e","r"," ","e","a","t","s">>, FALSE),
       Pat(FALSE, <<"d","o","o","r","d","a","s","h">>, FALSE),
       Pat(FALSE, <<"g","r","u","b","h","u","b">>, FALSE),
       Pat(FALSE, <<"p","o","s","t","m","a","t","e","s">>, FALSE),
       Pat(FALSE, <<"f","o","o","d"," ","p","a","n","d","a">>, FALSE),
       Pat(FALSE, <<"r","e","s","t","a","u","r","a","n","t">>, FALSE),
       Pat(FALSE, <<"c","a","f","e">>, FALSE),
       Pat(FALSE, <<"c","o","f","f","e","e"," ","s","h","o","p">>, FALSE),
       Pat(FALSE, <<"d","i","n","e","r">>, FALSE),
       Pat(FALSE, <<"b","i","s","t","r","o">>, FALSE),
       Pat(FALSE, <<"g","r","i","l","l">>, FALSE),
       Pat(FALSE, <<"b","a","r">>, FALSE),
       Pat(FALSE, <<"p","u","b">>, FALSE),
       Pat(FALSE, <<"k","i","t","c","h","e","n">>, FALSE),
       Pat(FALSE, <<"b","a","k","e","r","y">>, FALSE),
       Pat(FALSE, <<"p","i","z","z","e","r","i","a">>, FALSE),
       Pat(TRUE, <<"f","o","o","d">>, TRUE),
       Pat(TRUE, <<"p","i","z","z","a">>, TRUE),
       Pat(TRUE, <<"b","u","r","g","e","r">>, FALSE),
       Pat(TRUE, <<"s","u","s","h","i">>, TRUE),
       Pat(TRUE, <<"t","a","c","o">>, FALSE),
       Pat(FALSE, <<"d","i","n","i","n","g">>, FALSE),
       Pat(FALSE, <<"l","u","n","c","h">>, FALSE),
       Pat(FALSE, <<"d","i","n","n","e","r">>, FALSE),
       Pat(FALSE, <<"b","r","e","a","k","f","a","s","t">>, FALSE),
       Pat(FALSE, <<"t","a","k","e","o","u","t">>, FALSE),
       Pat(FALSE, <<"d","e","l","i","v","e","r","y">>, FALSE),
       Pat(TRUE, <<"b","e","e","r">>, TRUE),
       Pat(TRUE, <<"w","i","n","e">>, TRUE),
       Pat(FALSE, <<"a","l","c","o","h","o","l">>, FALSE),
       Pat(TRUE, <<"d","r","i","n","k">>, FALSE),
       Pat(FALSE, <<"b","e","v","e","r","a","g","e">>, FALSE),
       Pat(TRUE, <<"s","o","d","a">>, TRUE),
       Pat(TRUE, <<"j","u","i","c","e">>, TRUE),
       Pat(TRUE, <<"t","e","a">>, TRUE),
       Pat(TRUE, <<"m","i","l","k">>, TRUE),
       Pat(TRUE, <<"w","a","t","e","r">>, TRUE),
       Pat(TRUE, <<"i","c","e">>, TRUE),
       Pat(FALSE, <<"m","o","c","h","a">>, FALSE),
       Pat(FALSE, <<"l","a","t","t","e">>, FALSE),
       Pat(FALSE, <<"e","s","p","r","e","s","s","o">>, FALSE),
       Pat(FALSE, <<"c","a","p","p","u","c","c","i","n","o">>, FALSE),
       Pat(FALSE, <<"s","m","o","o","t","h","i","e">>, FALSE),
       Pat(TRUE, <<"s","n","a","c","k">>, FALSE),
       Pat(TRUE, <<"b","r","e","a","d">>, TRUE),
       Pat(TRUE, <<"c","a","k","e">>, TRUE),
       Pat(TRUE, <<"c","o","o","k","i","e">>, FALSE),
       Pat(TRUE, <<"c","a","n","d","y">>, FALSE),
       Pat(FALSE, <<"u5ddd","u83dc">>, FALSE),
       Pat(FALSE, <<"u4e2d","u9910">>, FALSE),
       Pat(FALSE, <<"u9910","u5385">>, FALSE),
       Pat(FALSE, <<"u996d","u5e97">>, FALSE),
       Pat(FALSE, <<"u5496","u5561">>, FALSE),
       Pat(FALSE, <<"u8336">>, FALSE),
       Pat(FALSE, <<"u9152">>, FALSE),
       Pat(FALSE, <<"u5564","u9152">>, FALSE),
       Pat(FALSE, <<"u98df","u7269">>, FALSE),
       Pat(FALSE, <<"u996e","u6599">>, FALSE),
       Pat(FALSE, <<"u5c0f","u5403">>, FALSE),
       Pat(FALSE, <<"u9762","u5305">>, FALSE),
       Pat(FALSE, <<"u86cb","u7cd5">>, FALSE),
       Pat(FALSE, <<"u5976","u8336">>, FALSE),
       Pat(FALSE, <<"u706b","u9505">>, FALSE),
       Pat(FALSE, <<"u70e7","u70e4">>, FALSE),
       Pat(TRUE, <<"f","o","b">>, TRUE),
       Pat(FALSE, <<"f","o","b"," ","c","o","p","y">>, FALSE)
     >>],
     [category |-> <<"G","r","o","c","e","r","y">>, patterns |-> <<
       Pat(TRUE, <<"w","a","l","m","a","r","t">>, FALSE),
       Pat(TRUE, <<"t","a","r","g","e","t">>, TRUE),
       Pat(TRUE, <<"c","o","s","t","c","o">>, FALSE),
       Pat(FALSE, <<"w","h","o","l","e"," ","f","o","o","d","s">>, FALSE),
       Pat(TRUE, <<"s","a","f","e","w","a","y">>, FALSE),
       Pat(TRUE, <<"k","r","o","g","e","r">>, FALSE),
       Pat(TRUE, <<"p","u","b","l","i","x">>, FALSE),
       Pat(FALSE, <<"t","r","a","d","e","r"," ","j","o","e">>, FALSE),
       Pat(TRUE, <<"a","l","d","i">>, FALSE),
       Pat(TRUE, <<"w","e","g","m","a","n">>, FALSE),
       Pat(TRUE, <<"s","t","o","p"," ","&"," ","s","h","o","p">>, FALSE),
       Pat(TRUE, <<"f","o","o","d"," ","l","i","o","n">>, FALSE),
       Pat(TRUE, <<"h","a","r","r","i","s"," ","t","e","e","t","e","r">>, FALSE),
       Pat(FALSE, <<"g","r","o","c","e","r","y">>, FALSE),
       Pat(FALSE, <<"s","u","p","e","r","m","a","r","k","e","t">>, FALSE),
       Pat(TRUE, <<"m","a","r","k","e","t">>, TRUE),
       Pat(TRUE, <<"m","a","r","t">>, TRUE),
       Pat(FALSE, <<"f","o","o","d"," ","s","t","o","r","e">>, FALSE),
       Pat(FALSE, <<"g","r","o","c","e","r","i","e","s">>, FALSE),
       Pat(FALSE, <<"v","e","g","e","t","a","b","l","e","s">>, FALSE),
       Pat(TRUE, <<"f","r","u","i","t","s">>, TRUE),
       Pat(TRUE, <<"m","e","a","t">>, TRUE),
       Pat(TRUE, <<"d","a","i","r","y">>, TRUE),
       Pat(FALSE, <<"p","r","o","d","u","c","e">>, FALSE),
       Pat(TRUE, <<"b","r","e","a","d">>, TRUE),
       Pat(TRUE, <<"m","i","l","k">>, TRUE),
       Pat(TRUE, <<"e","g","g","s">>, TRUE),
       Pat(TRUE, <<"c","h","e","e","s","e">>, TRUE),
       Pat(FALSE, <<"t"," ","a","n","d"," ","t">>, FALSE),
       Pat(TRUE, <<"t","n","t">>, TRUE),
       Pat(TRUE, <<"t","&","t">>, TRUE)
     >>],
     [category |-> <<"U","t","i","l","i","t","i","e","s">>, patterns |-> <<
       Pat(TRUE, <<"e","l","e","c","t","r","i","c">>, FALSE),
       Pat(FALSE, <<"e","l","e","c","t","r","i","c","i","t","y">>, FALSE),
       Pat(TRUE, <<"w","a","t","e","r">>, TRUE),
       Pat(TRUE, <<"s","e","w","e","r">>, TRUE),
       Pat(FALSE, <<"g","a","s"," ","b","i","l","l">>, FALSE),
       Pat(TRUE, <<"i","n","t","e","r","n","e","t">>, TRUE),
       Pat(TRUE, <<"c","a","b","l","e">>, TRUE),
       Pat(TRUE, <<"p","h","o","n","e">>, TRUE),
       Pat(TRUE, <<"m","o","b","i","l","e">>, TRUE),
       Pat(TRUE, <<"u","t","i","l","i","t","y">>, TRUE),
       Pat(TRUE, <<"b","i","l","l">>, TRUE),
       Pat(TRUE, <<"s","e","r","v","i","c","e">>, TRUE),
       Pat(FALSE, <<"m","a","i","n","t","e","n","a","n","c","e">>, FALSE),
       Pat(FALSE, <<"r","e","p","a","i","r">>, FALSE),
       Pat(TRUE, <<"h","e","a","t","i","n","g">>, TRUE),
       Pat(TRUE, <<"c","o","o","l","i","n","g">>, TRUE),
       Pat(TRUE, <<"h","v","a","c">>, TRUE),
       Pat(TRUE, <<"w","i","f","i">>, TRUE),
       Pat(TRUE, <<"a","t","t">>, TRUE),
       Pat(FALSE, <<"v","e","r","i","z","o","n">>, FALSE),
       Pat(FALSE, <<"c","o","m","c","a","s","t">>, FALSE),
       Pat(TRUE, <<"x","f","i","n","i","t","y">>, FALSE),
       Pat(TRUE, <<"s","p","e","c","t","r","u","m">>, FALSE),
       Pat(TRUE, <<"t","-","m","o","b","i","l","e">>, FALSE),
       Pat(FALSE, <<"s","p","r","i","n","t">>, FALSE),
       Pat(TRUE, <<"g","e">>, TRUE),
       Pat(TRUE, <<"p","g","e">>, TRUE),
       Pat(TRUE, <<"i","k","e","a">>, TRUE),
       Pat(TRUE, <<"c","h","a","i","r">>, TRUE),
       Pat(TRUE, <<"d","e","s","k">>, TRUE),
       Pat(TRUE, <<"t","a","b","l","e">>, TRUE),
       Pat(TRUE, <<"b","e","d">>, TRUE),
       Pat(TRUE, <<"s","o","f","a">>, TRUE),
       Pat(FALSE, <<"f","u","r","n","i","t","u","r","e">>, FALSE),
       Pat(TRUE, <<"h","o","m","e"," ","d","e","p","o","t">>, FALSE),
       Pat(TRUE, <<"l","o","w","e","s">>, TRUE),
       Pat(TRUE, <<"h","o","m","e">>, TRUE),
       Pat(TRUE, <<"h","o","u","s","e">>, TRUE),
       Pat(FALSE, <<"a","p","a","r","t","m","e","n","t">>, FALSE),
       Pat(TRUE, <<"d","e","c","o","r">>, TRUE),
       Pat(TRUE, <<"l","a","m","p">>, TRUE),
       Pat(TRUE, <<"s","h","e","l","f">>, TRUE),
       Pat(FALSE, <<"c","a","b","i","n","e","t">>, FALSE),
       Pat(FALSE, <<"d","r","e","s","s","e","r">>, FALSE),
       Pat(FALSE, <<"m","a","t","t","r","e","s","s">>, FALSE),
       Pat(TRUE, <<"p","i","l","l","o","w">>, TRUE),
       Pat(TRUE, <<"b","l","a","n","k","e","t">>, TRUE),
       Pat(TRUE, <<"r","u","g">>, TRUE),
       Pat(TRUE, <<"m","i","r","r","o","r">>, TRUE)
     >>],
     [category |-> <<"B","a","n","k">>, patterns |-> <<
       Pat(TRUE, <<"b","a","n","k">>, TRUE),
       Pat(TRUE, <<"a","t","m">>, TRUE),
       Pat(TRUE, <<"f","e","e">>, TRUE),
       Pat(TRUE, <<"c","h","a","r","g","e">>, TRUE),
       Pat(TRUE, <<"i","n","t","e","r","e","s","t">>, TRUE),
       Pat(TRUE, <<"l","o","a","n">>, TRUE),
       Pat(FALSE, <<"c","r","e","d","i","t"," ","c","a","r","d">>, FALSE),
       Pat(TRUE, <<"i","n","s","u","r","a","n","c","e">>, TRUE),
       Pat(FALSE, <<"i","n","v","e","s","t","m","e","n","t">>, FALSE),
       Pat(TRUE, <<"t","r","a","n","s","f","e","r">>, TRUE),
       Pat(TRUE, <<"p","a","y","m","e","n","t">>, TRUE),
       Pat(FALSE, <<"f","i","n","a","n","c","i","a","l">>, FALSE),
       Pat(TRUE, <<"s","a","v","i","n","g","s">>, TRUE),
       Pat(TRUE, <<"c","r","e","d","i","t">>, TRUE),
       Pat(TRUE, <<"d","e","b","t">>, TRUE),
       Pat(TRUE, <<"m","o","r","t","g","a","g","e">>, TRUE),
       Pat(FALSE, <<"c","h","a","s","e">>, FALSE),
       Pat(TRUE, <<"b","o","a">>, TRUE),
       Pat(FALSE, <<"b","a","n","k"," ","o","f"," ","a","m","e","r","i","c","a">>, FALSE),
       Pat(TRUE, <<"w","e","l","l","s"," ","f","a","r","g","o">>, FALSE),
       Pat(TRUE, <<"c","i","t","i">>, FALSE),
       Pat(TRUE, <<"u","s","a","a">>, TRUE),
       Pat(TRUE, <<"p","n","c">>, TRUE),
       Pat(TRUE, <<"t","d"," ","b","a","n","k">>, FALSE),
       Pat(TRUE, <<"u","s"," ","b","a","n","k">>, FALSE),
       Pat(FALSE, <<"p","a","y","p","o","w","e","r">>, FALSE),
       Pat(TRUE, <<"p","p","p">>, TRUE),
       Pat(TRUE, <<"p","p","e">>, TRUE),
       Pat(TRUE, <<"v","i","s","a">>, TRUE),
       Pat(FALSE, <<"m","a","s","t","e","r","c","a","r","d">>, FALSE),
       Pat(TRUE, <<"a","m","e","x">>, TRUE),
       Pat(FALSE, <<"p","a","y","p","a","l">>, FALSE),
       Pat(FALSE, <<"v","e","n","m","o">>, FALSE),
       Pat(TRUE, <<"z","e","l","l","e">>, TRUE),
       Pat(TRUE, <<"c","a","s","h","a","p","p">>, TRUE)
     >>],
     [category |-> <<"T","r","a","n","s","p","o","r","t","a","t","i","o","n">>, patterns |-> <<
       Pat(TRUE, <<"s","h","e","l","l">>, TRUE),
       Pat(TRUE, <<"e","x","x","o","n">>, TRUE),
       Pat(TRUE, <<"c","h","e","v","r","o","n">>, TRUE),
       Pat(TRUE, <<"b","p">>, TRUE),
       Pat(TRUE, <<"m","o","b","i","l">>, TRUE),
       Pat(TRUE, <<"t","e","x","a","c","o">>, TRUE),
       Pat(TRUE, <<"s","i","n","o","c","o">>, TRUE),
       Pat(TRUE, <<"a","r","c","o">>, TRUE),
       Pat(TRUE, <<"7","6">>, TRUE),
       Pat(TRUE, <<"u","b","e","r">>, TRUE),
       Pat(TRUE, <<"l","y","f","t">>, TRUE),
       Pat(TRUE, <<"t","a","x","i">>, TRUE),
       Pat(TRUE, <<"m","e","t","r","o">>, TRUE),
       Pat(TRUE, <<"b","u","s">>, TRUE),
       Pat(TRUE, <<"t","r","a","i","n">>, TRUE),
       Pat(TRUE, <<"s","u","b","w","a","y">>, TRUE),
       Pat(TRUE, <<"a","r","t">>, TRUE),
       Pat(TRUE, <<"m","t","a">>, TRUE),
       Pat(TRUE, <<"g","a","s">>, TRUE),
       Pat(TRUE, <<"f","u","e","l">>, TRUE),
       Pat(FALSE, <<"p","a","r","k","i","n","g">>, FALSE),
       Pat(TRUE, <<"t","o","l","l">>, TRUE),
       Pat(FALSE, <<"c","a","r"," ","w","a","s","h">>, FALSE),
       Pat(TRUE, <<"a","u","t","o">>, TRUE),
       Pat(TRUE, <<"g","a","r","a","g","e">>, TRUE),
       Pat(TRUE, <<"r","e","p","a","i","r">>, TRUE),
       Pat(TRUE, <<"o","i","l"," ","c","h","a","n","g","e">>, TRUE)
     >>],
     [category |-> <<"S","h","o","p","p","i","n","g">>, patterns |-> <<
       Pat(TRUE, <<"a","m","a","z","o","n">>, TRUE),
       Pat(TRUE, <<"e","b","a","y">>, TRUE),
       Pat(TRUE, <<"b","e","s","t"," ","b","u","y">>, TRUE),
       Pat(FALSE, <<"a","p","p","l","e"," ","s","t","o","r","e">>, FALSE),
       Pat(TRUE, <<"m","a","c","y">>, FALSE),
       Pat(TRUE, <<"n","o","r","d","s","t","r","o","m">>, FALSE),
       Pat(TRUE, <<"k","o","h","l">>, FALSE),
       Pat(TRUE, <<"j","c","p">>, FALSE),
       Pat(TRUE, <<"t","j","x">>, TRUE),
       Pat(TRUE, <<"m","a","l","l">>, TRUE),
       Pat(TRUE, <<"s","h","o","p">>, TRUE),
       Pat(TRUE, <<"r","e","t","a","i","l">>, TRUE),
       Pat(TRUE, <<"s","t","o","r","e">>, TRUE),
       Pat(FALSE, <<"c","l","o","t","h","i","n","g">>, FALSE),
       Pat(TRUE, <<"s","h","o","e","s">>, TRUE),
       Pat(FALSE, <<"f","a","s","h","i","o","n">>, FALSE),
       Pat(FALSE, <<"e","l","e","c","t","r","o","n","i","c","s">>, FALSE),
       Pat(TRUE, <<"p","h","o","n","e">>, TRUE),
       Pat(TRUE, <<"t","a","b","l","e","t">>, TRUE),
       Pat(TRUE, <<"l","a","p","t","o","p">>, TRUE)
     >>],
     [category |-> <<"E","n","t","e","r","t","a","i","n","m","e","n","t">>, patterns |-> <<
       Pat(TRUE, <<"n","e","t","f","l","i","x">>, TRUE),
       Pat(TRUE, <<"s","p","o","t","i","f","y">>, TRUE),
       Pat(TRUE, <<"h","u","l","u">>, TRUE),
       Pat(TRUE, <<"d","i","s","n","e","y">>, TRUE),
       Pat(TRUE, <<"a","m","a","z","o","n"," ","p","r","i","m","e">>, FALSE),
       Pat(TRUE, <<"y","o","u","t","u","b","e">>, TRUE),
       Pat(TRUE, <<"a","p","p","l","e"," ","m","u","s","i","c">>, FALSE),
       Pat(TRUE, <<"m","o","v","i","e">>, TRUE),
       Pat(TRUE, <<"t","h","e","a","t","e","r">>, TRUE),
       Pat(TRUE, <<"c","i","n","e","m","a">>, TRUE),
       Pat(TRUE, <<"c","o","n","c","e","r","t">>, TRUE),
       Pat(TRUE, <<"s","h","o","w">>, TRUE),
       Pat(TRUE, <<"c","l","u","b">>, TRUE),
       Pat(TRUE, <<"b","a","r">>, TRUE),
       Pat(TRUE, <<"g","y","m">>, TRUE),
       Pat(TRUE, <<"g","a","m","e">>, TRUE),
       Pat(TRUE, <<"s","t","e","a","m">>, TRUE),
       Pat(TRUE, <<"p","l","a","y","s","t","a","t","i","o","n">>, TRUE),
       Pat(TRUE, <<"x","b","o","x">>, TRUE),
       Pat(FALSE, <<"e","n","t","e","r","t","a","i","n","m","e","n","t">>, FALSE),
       Pat(TRUE, <<"m","u","s","i","c">>, TRUE),
       Pat(TRUE, <<"s","p","o","r","t">>, TRUE)
     >>] >>

\* the label of a description that no pattern matches
Other == <<"O","t","h","e","r">>

----------------------------------------------------------------------------
(* Cells of a DataFrame.  k is the kind of the value: "str" a Python       *)
(* string (s), "num" a float counted in cents (n), "ts" a Timestamp        *)
(* written yyyymmdd (n), "nan" a missing value, "nat" a missing Timestamp. *)
(* d is the denominator of a float that is no whole number of cents (n/d   *)
(* cents), and 1 in every other cell.                                      *)

Str(s) == [k |-> "str", s |-> s, n |-> 0, d |-> 1]
Num(n) == [k |-> "num", s |-> <<>>, n |-> n, d |-> 1]
Ts(n)  == [k |-> "ts",  s |-> <<>>, n |-> n, d |-> 1]
NaN    == [k |-> "nan", s |-> <<>>, n |-> 0, d |-> 1]
NaT    == [k |-> "nat", s |-> <<>>, n |-> 0, d |-> 1]

\* Series.astype(str) for one element; the columns it is applied to hold
\* strings and missing values only
AsTypeStr(cell) ==
  CASE cell.k = "str" -> cell.s
    [] cell.k = "nan" -> <<"n","a","n">>
    [] cell.k = "nat" -> <<"N","a","T">>

----------------------------------------------------------------------------
(* Column names.                                                           *)

T_date        == <<"d","a","t","e">>
T_amount      == <<"a","m","o","u","n","t">>
T_description == <<"d","e","s","c","r","i","p","t","i","o","n">>
T_category    == <<"c","a","t","e","g","o","r","y">>
T_account     == <<"a","c","c","o","u","n","t">>
T_type        == <<"t","y","p","e">>

----------------------------------------------------------------------------
(* Inputs: the cells and the headers raw tables are built from.            *)

\* descriptions handed to auto_categorize
Descriptions ==
  { Str(<<"S","t","a","r","b","u","c","k","s"," ","C","o","f","f","e","e">>),
    Str(<<" ","S","a","f","e","w","a","y"," ">>),
    Str(<<"S","p","o","r","t","s"," ","B","a","r">>),
    Str(<<"S","U","B","W","A","Y">>),
    Str(<<"W","a","t","e","r"," ","B","i","l","l">>),
    Str(<<"P","h","o","n","e">>),
    Str(<<"N","e","t","f","l","i","x">>),
    Str(<<"U","b","e","r"," ","T","r","i","p">>),
    Str(<<"A","m","a","z","o","n">>),
    Str(<<"A","T","M"," ","F","e","e">>),
    Str(<<"u4e00","u5bb6","u5ddd","u83dc">>),
    Str(<<"x","y","z">>),
    Str(<<>>),
    Str(<<" "," "," ">>),
    NaN }

\* "2024-01-05", "2024-01-06", "n/a"
DateCells ==
  { Str(<<"2","0","2","4","-","0","1","-","0","5">>),
    Str(<<"2","0","2","4","-","0","1","-","0","6">>),
    Str(<<"n","/","a">>) }

\* "12.50", "-40.00", "abc"
AmountCells ==
  { Str(<<"1","2",".","5","0">>),
    Str(<<"-","4","0",".","0","0">>),
    Str(<<"a","b","c">>) }

\* "Starbucks Coffee", "   ", a missing value
DescCells ==
  { Str(<<"S","t","a","r","b","u","c","k","s"," ","C","o","f","f","e","e">>),
    Str(<<" "," "," ">>),
    NaN }

\* "Dining", "OTHER", ""
CategoryCells ==
  { Str(<<"D","i","n","i","n","g">>),
    Str(<<"O","T","H","E","R">>),
    Str(<<>>) }

\* "note"
MemoCells == { Str(<<"n","o","t","e">>) }

\* "Visa", a missing value
AccountCells == { Str(<<"V","i","s","a">>), NaN }

\* "Income", "expense "
TypeCells ==
  { Str(<<"I","n","c","o","m","e">>),
    Str(<<"e","x","p","e","n","s","e"," ">>) }

\* the header strings of raw tables, each with the kind of cell its column
\* holds: "Date", "trans_date", " Amount ", "debit", "Description",
\* "merchant", "Category", "cat", "memo"
RawHeaders ==
  { [name |-> <<"D","a","t","e">>,                          holds |-> "date"],
    [name |-> <<"t","r","a","n","s","_","d","a","t","e">>,  holds |-> "date"],
    [name |-> <<" ","A","m","o","u","n","t"," ">>,          holds |-> "amount"],
    [name |-> <<"d","e","b","i","t">>,                      holds |-> "amount"],
    [name |-> <<"D","e","s","c","r","i","p","t","i","o","n">>,
                                                            holds |-> "description"],
    [name |-> <<"m","e","r","c","h","a","n","t">>,          holds |-> "description"],
    [name |-> <<"C","a","t","e","g","o","r","y">>,          holds |-> "category"],
    [name |-> <<"c","a","t">>,                              holds |-> "category"],
    [name |-> <<"m","e","m","o">>,                          holds |-> "memo"] }

CellsOf(holds) ==
  CASE holds = "date"        -> DateCells
    [] holds = "amount"      -> AmountCells
    [] holds = "description" -> DescCells
    [] holds = "category"    -> CategoryCells
    [] holds = "memo"        -> MemoCells
    [] holds = "account"     -> AccountCells
    [] holds = "type"        -> TypeCells

\* the cells of a well-formed row: "2024-01-05" or "2024-01-06", "-40.00",
\* "Starbucks Coffee" or " Safeway ", any category label
ValidCellsOf(holds) ==
  CASE holds = "date"        ->
         { Str(<<"2","0","2","4","-","0","1","-","0","5">>),
           Str(<<"2","0","2","4","-","0","1","-","0","6">>) }
    [] holds = "amount"      -> { Str(<<"-","4","0",".","0","0">>) }
    [] holds = "description" ->
         { Str(<<"S","t","a","r","b","u","c","k","s"," ","C","o","f","f","e","e">>),
           Str(<<" ","S","a","f","e","w","a","y"," ">>) }
    [] holds = "category"    -> CategoryCells
    [] holds = "memo"        -> MemoCells
    [] holds = "account"     -> AccountCells
    [] holds = "type"        -> TypeCells

\* one well-formed cell for each kind of column
SampleCellOf(holds) ==
  CASE holds = "date"        -> Str(<<"2","0","2","4","-","0","1","-","0","5">>)
    [] holds = "amount"      -> Str(<<"-","4","0",".","0","0">>)
    [] holds = "description" -> Str(<<" ","S","a","f","e","w","a","y"," ">>)
    [] holds = "category"    -> Str(<<"O","t","h","e","r">>)
    [] holds = "memo"        -> Str(<<"n","o","t","e">>)

SeqsUpTo(S, n) == UNION {[1..m -> S] : m \in 0..n}

----------------------------------------------------------------------------
(* DataProcessor.auto_categorize                                           *)

\* the texts str.contains is applied to: the inputs, lower-cased and trimmed
NormalizedTexts ==
  {Strip(Lower(AsTypeStr(c))) : c \in Descriptions \cup DescCells}

\* Series.str.contains(combined_pattern, case=False, na=False, regex=True)
\* for the k-th category of the rule table, tabulated over those texts
str_contains ==
  [k \in 1..Len(category_patterns) |->
     [s \in NormalizedTexts |-> ContainsAny(category_patterns[k].patterns, s)]]

\* the same loop without the "category is still 'Other'" condition
RECURSIVE CategorizeFrom_override(_, _, _)
CategorizeFrom_override(k, descriptions_lower, categories) ==
  IF k > Len(category_patterns) THEN categories
  ELSE LET rule == category_patterns[k]
           mask == [i \in DOMAIN descriptions_lower |->
                      str_contains[k][descriptions_lower[i]]]
       IN  CategorizeFrom_override(k + 1, descriptions_lower,
             [i \in DOMAIN categories |->
                IF mask[i] THEN rule.category ELSE categories[i]])

\* the same loop with the mask reduced over the whole Series
RECURSIVE CategorizeFrom_anyrow(_, _, _)
CategorizeFrom_anyrow(k, descriptions_lower, categories) ==
  IF k > Len(category_patterns) THEN categories
  ELSE LET rule == category_patterns[k]
           mask == [i \in DOMAIN descriptions_lower |->
                      \E j \in DOMAIN descriptions_lower :
                         str_contains[k][descriptions_lower[j]]]
       IN  CategorizeFrom_anyrow(k + 1, descriptions_lower,
             [i \in DOMAIN categories |->
                IF mask[i] /\ categories[i] = Other
                   THEN rule.category ELSE categories[i]])

\* the loop over category_patterns.items(), from the k-th category on
RECURSIVE CategorizeFrom(_, _, _)
CategorizeFrom(k, descriptions_lower, categories) ==
  IF k > Len(category_patterns) THEN categories
  ELSE LET rule == category_patterns[k]
           mask == [i \in DOMAIN descriptions_lower |->
                      str_contains[k][descriptions_lower[i]]]
       IN  CategorizeFrom(k + 1, descriptions_lower,
             [i \in DOMAIN categories |->
                IF mask[i] /\ categories[i] = Other
                   THEN rule.category ELSE categories[i]])

\* descriptions is a Series of cells; the result is the Series of labels
auto_categorize(descriptions) ==
  LET descriptions_lower ==
        [i \in 1..Len(descriptions) |->
           Strip(Lower(AsTypeStr(descriptions[i])))]
      categories == [i \in 1..Len(descriptions) |-> Other]
  IN  CategorizeFrom(1, descriptions_lower, categories)

----------------------------------------------------------------------------
(* Parsing of cells.                                                       *)

IsDigit(c) == c \in Range(Digits)

DigitValue(c) == (CHOOSE i \in 1..10 : Digits[i] = c) - 1

\* the number a string of digits writes
RECURSIVE DigitsValue(_)
DigitsValue(s) ==
  IF s = <<>> THEN 0
  ELSE 10 * DigitsValue(SubSeq(s, 1, Len(s) - 1)) + DigitValue(s[Len(s)])

AllDigits(s) == \A i \in 1..Len(s) : IsDigit(s[i])

IsLeapYear(y) == (y % 4 = 0 /\ y % 100 # 0) \/ y % 400 = 0

DaysInMonth(y, m) ==
  IF m = 2 THEN (IF IsLeapYear(y) THEN 29 ELSE 28)
  ELSE IF m \in {4, 6, 9, 11} THEN 30 ELSE 31

\* a string "YYYY-MM-DD" that names a calendar day parses to a Timestamp,
\* any other string to NaT
ParseDate(s) ==
  IF /\ Len(s) = 10
     /\ s[5] = "-" /\ s[8] = "-"
     /\ AllDigits(SubSeq(s, 1, 4))
     /\ AllDigits(SubSeq(s, 6, 7))
     /\ AllDigits(SubSeq(s, 9, 10))
  THEN LET y == DigitsValue(SubSeq(s, 1, 4))
           m == DigitsValue(SubSeq(s, 6, 7))
           d == DigitsValue(SubSeq(s, 9, 10))
       IN  IF m \in 1..12 /\ d \in 1..DaysInMonth(y, m)
              THEN Ts(y * 10000 + m * 100 + d)
              ELSE NaT
  ELSE NaT

\* pd.to_datetime(..., errors='coerce') for one element
to_datetime(cell) ==
  CASE cell.k = "ts"  -> cell
    [] cell.k = "str" -> ParseDate(cell.s)
    [] cell.k \in {"nan", "nat"} -> NaT

\* a decimal numeral with an optional sign and at most two decimals parses
\* to its value in cents, any other string to NaN
ParseNumber(s) ==
  LET signed == Len(s) >= 1 /\ s[1] \in {"-", "+"}
      body   == IF signed THEN SubSeq(s, 2, Len(s)) ELSE s
      dots   == {i \in 1..Len(body) : body[i] = "."}
      dot    == IF dots = {} THEN Len(body) + 1 ELSE CHOOSE i \in dots : TRUE
      whole  == SubSeq(body, 1, dot - 1)
      frac   == SubSeq(body, dot + 1, Len(body))
      cents  == 100 * DigitsValue(whole)
                  + (IF Len(frac) = 1 THEN 10 * DigitsValue(frac)
                     ELSE DigitsValue(frac))
  IN  IF /\ Cardinality(dots) <= 1
         /\ Len(whole) >= 1 /\ AllDigits(whole)
         /\ Len(frac) <= 2 /\ AllDigits(frac)
      THEN Num(IF signed /\ s[1] = "-" THEN 0 - cents ELSE cents)
      ELSE NaN

\* pd.to_numeric(..., errors='coerce') for one element
to_numeric(cell) ==
  CASE cell.k = "num" -> cell
    [] cell.k = "str" -> ParseNumber(cell.s)
    [] cell.k \in {"nan", "nat"} -> NaN

\* the amount left as parsed, sign included
abs_identity(cell) == cell

\* Series.abs for one element
abs(cell) ==
  IF cell.k = "num" /\ cell.n < 0 THEN Num(0 - cell.n) ELSE cell

\* Series.isna for one element
isna(cell) == cell.k \in {"nan", "nat"}

----------------------------------------------------------------------------
(* DataFrames: the column labels in order, the rows in order (one cell per *)
(* column) and the index label of every row.  Two columns may carry the    *)
(* same label.                                                             *)

Frame(columns, rows, index) ==
  [columns |-> columns, rows |-> rows, index |-> index]

\* a frame with the default RangeIndex
Table(columns, rows) == Frame(columns, rows, [i \in 1..Len(rows) |-> i])

ColumnsNamed(columns, name) == {j \in 1..Len(columns) : columns[j] = name}

HasColumn(columns, name) == ColumnsNamed(columns, name) # {}

\* the position of a label that one column carries
ColumnOf(columns, name) == CHOOSE j \in 1..Len(columns) : columns[j] = name

\* df[name] = values, for a label that at most one column carries: the
\* column is overwritten in place, or appended as the last column
SetColumn(df, name, values) ==
  IF HasColumn(df.columns, name)
  THEN LET j == ColumnOf(df.columns, name)
       IN  [df EXCEPT !.rows =
              [i \in 1..Len(df.rows) |-> [df.rows[i] EXCEPT ![j] = values[i]]]]
  ELSE [df EXCEPT !.columns = Append(df.columns, name),
                  !.rows = [i \in 1..Len(df.rows) |->
                              Append(df.rows[i], values[i])]]

\* df[name] for a label that one column carries
GetColumn(df, name) ==
  LET j == ColumnOf(df.columns, name)
  IN  [i \in 1..Len(df.rows) |-> df.rows[i][j]]

\* the rows at the given positions, in that order
TakeRows(df, positions) ==
  [df EXCEPT !.rows  = [i \in 1..Len(positions) |-> df.rows[positions[i]]],
             !.index = [i \in 1..Len(positions) |-> df.index[positions[i]]]]

\* the elements of a set of numbers in increasing order
RECURSIVE Ascending(_)
Ascending(S) ==
  IF S = {} THEN <<>>
  ELSE LET m == CHOOSE x \in S : \A y \in S : x <= y
       IN  <<m>> \o Ascending(S \ {m})

----------------------------------------------------------------------------
(* DataProcessor.process_dataframe                                         *)

required_columns == <<T_date, T_amount, T_description>>

\* the alias table, as (raw name, canonical name) pairs
column_mapping ==
  << <<<<"t","r","a","n","s","a","c","t","i","o","n","_","d","a","t","e">>, T_date>>,
     <<<<"t","r","a","n","s","_","d","a","t","e">>, T_date>>,
     <<<<"p","o","s","t","i","n","g","_","d","a","t","e">>, T_date>>,
     <<<<"t","r","a","n","s","a","c","t","i","o","n","_","a","m","o","u","n","t">>, T_amount>>,
     <<<<"d","e","b","i","t">>, T_amount>>,
     <<<<"c","r","e","d","i","t">>, T_amount>>,
     <<<<"t","r","a","n","s","a","c","t","i","o","n","_","d","e","s","c","r","i","p","t","i","o","n">>, T_description>>,
     <<<<"d","e","s","c">>, T_description>>,
     <<<<"m","e","r","c","h","a","n","t">>, T_description>>,
     <<<<"p","a","y","e","e">>, T_description>>,
     <<<<"c","a","t">>, T_category>>,
     <<<<"e","x","p","e","n","s","e","_","c","a","t","e","g","o","r","y">>, T_category>>,
     <<<<"a","c","c","o","u","n","t","_","n","a","m","e">>, T_account>>,
     <<<<"b","a","n","k","_","a","c","c","o","u","n","t">>, T_account>>
  >>

\* df.columns.str.lower().str.strip()
StandardizeNames(columns) ==
  [j \in 1..Len(columns) |-> Strip(Lower(columns[j]))]

\* df.rename(columns=column_mapping): every label that is a key of the
\* table is replaced, whether or not another column gets the same label
Rename(columns) ==
  [j \in 1..Len(columns) |->
     IF \E m \in 1..Len(column_mapping) : column_mapping[m][1] = columns[j]
        THEN column_mapping[CHOOSE m \in 1..Len(column_mapping) :
                              column_mapping[m][1] = columns[j]][2]
        ELSE columns[j]]

\* only the first required column that is absent
missing_columns_first(columns) ==
  LET missing == SelectSeq(required_columns, LAMBDA col : ~HasColumn(columns, col))
  IN  IF missing = <<>> THEN <<>> ELSE <<Head(missing)>>

\* [col for col in self.required_columns if col not in df.columns]
missing_columns(columns) ==
  SelectSeq(required_columns, LAMBDA col : ~HasColumn(columns, col))

\* what a call does: it raises, or it returns a frame (process_dataframe)
\* or a Series of labels (auto_categorize).  index keeps the index labels
\* that reset_index(drop=True) discards: the position in the argument of
\* every returned row.
NoFrame == Table(<<>>, <<>>)

Raised(exc, msg, missing) ==
  [status |-> "raised", exc |-> exc, msg |-> msg, missing |-> missing,
   df |-> NoFrame, index |-> <<>>, labels |-> <<>>]

Returned(df, index) ==
  [status |-> "returned", exc |-> "", msg |-> "", missing |-> <<>>,
   df |-> df, index |-> index, labels |-> <<>>]

ReturnedLabels(labels) ==
  [status |-> "returned", exc |-> "", msg |-> "", missing |-> <<>>,
   df |-> NoFrame, index |-> <<>>, labels |-> labels]

NothingYet ==
  [status |-> "none", exc |-> "", msg |-> "", missing |-> <<>>,
   df |-> NoFrame, index |-> <<>>, labels |-> <<>>]

\* df['date'] = pd.to_datetime(df['date'], errors='coerce')
ProcessDate(df) ==
  SetColumn(df, T_date,
    [i \in 1..Len(df.rows) |-> to_datetime(GetColumn(df, T_date)[i])])

\* df['amount'] = pd.to_numeric(df['amount'], errors='coerce'); .abs()
ProcessAmount(df) ==
  SetColumn(df, T_amount,
    [i \in 1..Len(df.rows) |-> abs(to_numeric(GetColumn(df, T_amount)[i]))])

\* df['description'] = df['description'].astype(str).str.strip()
CleanDescription(df) ==
  SetColumn(df, T_description,
    [i \in 1..Len(df.rows) |->
       Str(Strip(AsTypeStr(GetColumn(df, T_description)[i])))])

\* if 'category' not in df.columns: auto_categorize(df['description'])
AddCategory(df) ==
  IF HasColumn(df.columns, T_category) THEN df
  ELSE LET labels == auto_categorize(GetColumn(df, T_description))
       IN  SetColumn(df, T_category,
             [i \in 1..Len(df.rows) |-> Str(labels[i])])

\* if 'account' not in df.columns: df['account'] = 'Main Account'
AddAccount(df) ==
  IF HasColumn(df.columns, T_account) THEN df
  ELSE SetColumn(df, T_account,
         [i \in 1..Len(df.rows) |->
            Str(<<"M","a","i","n"," ","A","c","c","o","u","n","t">>)])

\* the type column is never added
AddType_skip(df) == df

\* if 'type' not in df.columns: df['type'] = 'Expense'
AddType(df) ==
  IF HasColumn(df.columns, T_type) THEN df
  ELSE SetColumn(df, T_type,
         [i \in 1..Len(df.rows) |-> Str(<<"E","x","p","e","n","s","e">>)])

\* dropna(subset=['date']): a missing amount does not drop the row
dropna_dateonly(df) ==
  LET jd == ColumnOf(df.columns, T_date)
  IN  TakeRows(df, Ascending({i \in 1..Len(df.rows) : ~isna(df.rows[i][jd])}))

\* df.dropna(subset=['date', 'amount'])
dropna(df) ==
  LET jd == ColumnOf(df.columns, T_date)
      ja == ColumnOf(df.columns, T_amount)
  IN  TakeRows(df, Ascending({i \in 1..Len(df.rows) :
                    ~isna(df.rows[i][jd]) /\ ~isna(df.rows[i][ja])}))

\* the orders in which a sort by the given keys may leave the rows
SortOrders(keys) ==
  {p \in Permutations(1..Len(keys)) :
     \A i, j \in 1..Len(keys) : i < j => keys[p[i]] <= keys[p[j]]}

\* df.sort_values('date'): the default kind is quicksort, which leaves rows
\* of equal date in any order
sort_values(df) ==
  LET jd == ColumnOf(df.columns, T_date)
      keys == [i \in 1..Len(df.rows) |-> df.rows[i][jd].n]
  IN  {TakeRows(df, [i \in 1..Len(df.rows) |-> p[i]]) : p \in SortOrders(keys)}

\* the results a call of process_dataframe(df) can have
process_dataframe(df) ==
  LET columns == Rename(StandardizeNames(df.columns))
      missing == missing_columns(columns)
      renamed == Frame(columns, df.rows, df.index)
  IN  IF missing # <<>>
        THEN {Raised("ValueError", "Missing required columns", missing)}
      ELSE IF Cardinality(ColumnsNamed(columns, T_date)) > 1
        THEN {Raised("ValueError", "cannot assemble with duplicate keys", <<>>)}
      ELSE IF Cardinality(ColumnsNamed(columns, T_amount)) > 1
        THEN {Raised("TypeError",
                     "arg must be a list, tuple, 1-d array, or Series", <<>>)}
      ELSE IF Cardinality(ColumnsNamed(columns, T_description)) > 1
        THEN {Raised("AttributeError",
                     "'DataFrame' object has no attribute 'str'", <<>>)}
      ELSE LET cleaned ==
                 AddType(AddAccount(AddCategory(CleanDescription(
                   ProcessAmount(ProcessDate(renamed))))))
           IN  {Returned(Table(sorted.columns, sorted.rows), sorted.index) :
                  sorted \in sort_values(dropna(cleaned))}

----------------------------------------------------------------------------
(* Objects.  A DataFrame is an object that several names may refer to: the *)
(* table the caller holds and passes in ("caller"), the table a call works *)
(* on ("local"), the table a BillAnalyzer keeps ("self_df") and the        *)
(* pre-filtered table passed to a query ("passed").                        *)

Objects == {"caller", "local", "self_df", "passed"}

NoObjects == [o \in Objects |-> NoFrame]

\* the name keeps referring to the object it was given
copy_alias(src, dst) == src

\* df.copy(): a new object dst with the content of src; the result refers
\* to it
copy(src, dst) == dst

\* the objects once dst holds what src holds
Copied(heap, src, dst) == [heap EXCEPT ![dst] = heap[src]]

\* the objects once the call has returned and its local table is gone
Return(heap) == [heap EXCEPT !["local"] = NoFrame]

\* the objects after process_dataframe on the caller's table: the call
\* assigns into the object df names at line 105 only (rename, line 125,
\* returns a new object, and every later step writes that one)
process_dataframe_heap(heap) ==
  LET df == copy("caller", "local")
      copied == Copied(heap, "caller", "local")
  IN  Return([copied EXCEPT
                ![df].columns = StandardizeNames(copied[df].columns)])

----------------------------------------------------------------------------
(* Dates and floats.                                                       *)

\* a count or another whole number
Count(n) == [k |-> "int", s |-> <<>>, n |-> n, d |-> 1]

RECURSIVE GCD(_, _)
GCD(a, b) == IF b = 0 THEN a ELSE GCD(b, a % b)

\* the float n/d, in lowest terms (d > 0)
Float(n, d) ==
  LET g == GCD(IF n < 0 THEN 0 - n ELSE n, d)
  IN  [k |-> "num", s |-> <<>>, n |-> n \div g, d |-> d \div g]

YearOf(ts) == ts.n \div 10000

MonthOf(ts) == (ts.n \div 100) % 100

DayOf(ts) == ts.n % 100

RECURSIVE DaysBeforeMonth(_, _)
DaysBeforeMonth(y, m) ==
  IF m = 1 THEN 0 ELSE DaysBeforeMonth(y, m - 1) + DaysInMonth(y, m - 1)

\* the number of the day, 0001-01-01 being day 1
Ordinal(ts) ==
  LET y == YearOf(ts) - 1
  IN  365 * y + (y \div 4) - (y \div 100) + (y \div 400)
        + DaysBeforeMonth(YearOf(ts), MonthOf(ts)) + DayOf(ts)

RECURSIVE SumOf(_)
SumOf(s) == IF s = <<>> THEN 0 ELSE Head(s) + SumOf(Tail(s))

\* a sequence of numbers in non-decreasing order
RECURSIVE SortedNumbers(_)
SortedNumbers(s) ==
  IF s = <<>> THEN <<>>
  ELSE LET i == CHOOSE i \in 1..Len(s) : \A j \in 1..Len(s) : s[i] <= s[j]
       IN  <<s[i]>> \o SortedNumbers([j \in 1..(Len(s) - 1) |->
                                        IF j < i THEN s[j] ELSE s[j + 1]])

\* the values of a sequence in the order of their first occurrence
RECURSIVE Unique(_)
Unique(s) ==
  IF s = <<>> THEN <<>>
  ELSE LET front == Unique(SubSeq(s, 1, Len(s) - 1))
           last == s[Len(s)]
       IN  IF \E i \in 1..Len(front) : front[i] = last
           THEN front ELSE Append(front, last)

----------------------------------------------------------------------------
(* DataProcessor.validate_data_quality, on a ledger that has a row and no  *)
(* label twice.  The report is a table of one row, one column per entry.   *)

\* the reports validate_data_quality(df) can return: value_counts() orders
\* the labels by falling count, labels of equal count in any order, and
\* head() keeps the first five
validate_data_quality(df) ==
  LET rows == 1..Len(df.rows)
      dates == [i \in rows |-> GetColumn(df, T_date)[i].n]
      amounts == [i \in rows |-> GetColumn(df, T_amount)[i].n]
      sorted == SortedNumbers(amounts)
      half == Len(sorted) \div 2
      first == CHOOSE i \in rows : \A j \in rows : dates[i] <= dates[j]
      last == CHOOSE i \in rows : \A j \in rows : dates[i] >= dates[j]
      labels == Unique(SelectSeq(GetColumn(df, T_category),
                                 LAMBDA c : ~isna(c)))
      count == [l \in 1..Len(labels) |->
                  Cardinality({i \in rows :
                                 GetColumn(df, T_category)[i] = labels[l]})]
      scalars ==
        << <<<<"t","o","t","a","l","_","r","o","w","s">>, Count(Len(df.rows))>>,
           <<<<"d","u","p","l","i","c","a","t","e","_","r","o","w","s">>,
             Count(Cardinality({i \in rows :
                                \E j \in rows : j < i /\ df.rows[j] = df.rows[i]}))>>,
           <<<<"d","a","t","e","_","r","a","n","g","e",".","m","i","n">>, Ts(dates[first])>>,
           <<<<"d","a","t","e","_","r","a","n","g","e",".","m","a","x">>, Ts(dates[last])>>,
           <<<<"d","a","t","e","_","r","a","n","g","e",".","s","p","a","n","_","d","a","y","s">>,
             Count(Ordinal(Ts(dates[last])) - Ordinal(Ts(dates[first])))>>,
           <<<<"a","m","o","u","n","t","_","s","t","a","t","s",".","m","i","n">>, Num(sorted[1])>>,
           <<<<"a","m","o","u","n","t","_","s","t","a","t","s",".","m","a","x">>, Num(sorted[Len(sorted)])>>,
           <<<<"a","m","o","u","n","t","_","s","t","a","t","s",".","m","e","a","n">>, Float(SumOf(amounts), Len(amounts))>>,
           <<<<"a","m","o","u","n","t","_","s","t","a","t","s",".","m","e","d","i","a","n">>,
             IF Len(sorted) % 2 = 1 THEN Num(sorted[half + 1])
             ELSE Float(sorted[half] + sorted[half + 1], 2)>>,
           <<<<"a","m","o","u","n","t","_","s","t","a","t","s",".","n","e","g","a","t","i","v","e","_","v","a","l","u","e","s">>,
             Count(Cardinality({i \in rows : amounts[i] < 0}))>>,
           <<<<"c","a","t","e","g","o","r","i","e","s",".","u","n","i","q","u","e","_","c","o","u","n","t">>,
             Count(Len(labels))>> >>
      missing ==
        [j \in 1..Len(df.columns) |->
           <<<<"m","i","s","s","i","n","g","_","v","a","l","u","e","s",".">> \o df.columns[j],
             Count(Cardinality({i \in rows : isna(df.rows[i][j])}))>>]
      entries(p) ==
        scalars \o missing \o
        [l \in 1..(IF Len(labels) < 5 THEN Len(labels) ELSE 5) |->
           <<<<"c","a","t","e","g","o","r","i","e","s",".","m","o","s","t","_","c","o","m","m","o","n",".">> \o AsTypeStr(labels[p[l]]),
             Count(count[p[l]])>>]
  IN  {LET all == entries(p)
       IN  Returned(Table([j \in 1..Len(all) |-> all[j][1]],
                          <<[j \in 1..Len(all) |-> all[j][2]]>>), <<>>) :
         p \in SortOrders([l \in 1..Len(labels) |-> 0 - count[l]])}

\* the objects after validate_data_quality: lines 412-434 only read df
validate_data_quality_heap(heap) == heap

----------------------------------------------------------------------------
(* Raw tables.                                                             *)

Distinct(s) == \A i, j \in 1..Len(s) : i # j => s[i] # s[j]

\* header rows: up to MaxCols different headers in any order
HeaderRows ==
  {h \in SeqsUpTo(RawHeaders, MaxCols) : Len(h) >= 1 /\ Distinct(h)}

NamesOf(headers) == [j \in 1..Len(headers) |-> headers[j].name]

\* the rows a header row admits: every cell of the kind its column holds
RowsUnder(headers, wellFormed) ==
  {r \in [1..Len(headers) ->
            UNION {CellsOf(headers[j].holds) : j \in 1..Len(headers)}] :
     \A j \in 1..Len(headers) :
        r[j] \in (IF wellFormed THEN ValidCellsOf(headers[j].holds)
                                ELSE CellsOf(headers[j].holds))}

\* tables that vary the header row, over one well-formed row
HeaderTables ==
  {Table(NamesOf(h), <<[j \in 1..Len(h) |-> SampleCellOf(h[j].holds)]>>) :
     h \in HeaderRows}

\* "Date", " Amount ", "merchant"
PlainLayout ==
  << [name |-> <<"D","a","t","e">>,                 holds |-> "date"],
     [name |-> <<" ","A","m","o","u","n","t"," ">>, holds |-> "amount"],
     [name |-> <<"m","e","r","c","h","a","n","t">>, holds |-> "description"] >>

\* "trans_date", "debit", "Description", "Category"
LabelledLayout ==
  << [name |-> <<"t","r","a","n","s","_","d","a","t","e">>, holds |-> "date"],
     [name |-> <<"d","e","b","i","t">>,                     holds |-> "amount"],
     [name |-> <<"D","e","s","c","r","i","p","t","i","o","n">>,
                                                            holds |-> "description"],
     [name |-> <<"C","a","t","e","g","o","r","y">>,         holds |-> "category"] >>

\* "Date", "debit", "bank_account", " Type", "payee": the account and the
\* transaction type are supplied
AccountLayout ==
  << [name |-> <<"D","a","t","e">>,                 holds |-> "date"],
     [name |-> <<"d","e","b","i","t">>,             holds |-> "amount"],
     [name |-> <<"b","a","n","k","_","a","c","c","o","u","n","t">>,
                                                    holds |-> "account"],
     [name |-> <<" ","T","y","p","e">>,             holds |-> "type"],
     [name |-> <<"p","a","y","e","e">>,             holds |-> "description"] >>

\* the rows under the account layout: the same purchase with any account and
\* any type
AccountRows ==
  {r \in RowsUnder(AccountLayout, TRUE) :
     /\ r[1] = SampleCellOf("date")
     /\ r[2] = SampleCellOf("amount")
     /\ r[5] = SampleCellOf("description")}

\* tables that vary the rows: any cells under the plain layout, well-formed
\* rows with any label under the labelled layout, well-formed rows with any
\* account and type under the account layout
RowTables ==
  {Table(NamesOf(PlainLayout), rows) :
     rows \in SeqsUpTo(RowsUnder(PlainLayout, FALSE), MaxRows)}
  \cup
  {Table(NamesOf(LabelledLayout), rows) :
     rows \in SeqsUpTo(RowsUnder(LabelledLayout, TRUE), MaxRows)}
  \cup
  {Table(NamesOf(AccountLayout), rows) :
     rows \in SeqsUpTo(AccountRows, MaxRows)}

RawTables == HeaderTables \cup RowTables

----------------------------------------------------------------------------
(* Ledgers handed to the analyzer: what process_dataframe returns (the six *)
(* columns, Timestamps in ascending order, amounts >= 0, trimmed text).    *)

LedgerLayout ==
  <<T_date, T_amount, T_description, T_category, T_account, T_type>>

\* Friday 2024-01-05, Monday 2024-03-11 and Saturday 2025-02-01
LedgerDates == {Ts(20240105), Ts(20240311), Ts(20250201)}

\* what was spent and on what: 10.00 on Food, 20.00 on Dining, 0.00 on Food,
\* 10.00 with the category left blank in a supplied category column
Spendings ==
  { <<Num(1000), Str(<<"F","o","o","d">>)>>,
    <<Num(2000), Str(<<"D","i","n","i","n","g">>)>>,
    <<Num(0),    Str(<<"F","o","o","d">>)>>,
    <<Num(1000), NaN>> }

LedgerRow(date, amount, category) ==
  <<date, amount, Str(<<"C","a","f","e">>), category,
    Str(<<"M","a","i","n"," ","A","c","c","o","u","n","t">>), Str(<<"E","x","p","e","n","s","e">>)>>

\* the rows of the small ledgers: 10.00 on Food or 20.00 on Dining on any of
\* the dates, 0.00 on Food on the first, 10.00 without a category on the
\* second
LedgerRows ==
  {r \in {LedgerRow(date, sp[1], sp[2]) : date \in LedgerDates, sp \in Spendings} :
     /\ r[2] = Num(0) => r[1] = Ts(20240105)
     /\ r[4] = NaN => r[1] = Ts(20240311)}

\* ledgers of one to MaxRows rows, at least one of them with a category
SmallLedgers ==
  {Table(LedgerLayout, rows) :
     rows \in {r \in SeqsUpTo(LedgerRows, MaxRows) :
                 /\ \E i \in 1..Len(r) : r[i][4] # NaN
                 /\ \A i, j \in 1..Len(r) : i < j => r[i][1].n <= r[j][1].n}}

\* the first day of the i-th month counted from January 2024
MonthStart(i) ==
  Ts((2024 + (i - 1) \div 12) * 10000 + (((i - 1) % 12) + 1) * 100 + 1)

\* ledgers with one transaction in each of the first n months from January
\* 2024: 1.00, 2.00 or 3.00, on Food or on Dining
MonthlyLedgers ==
  {Table(LedgerLayout,
         [i \in 1..n |->
            LedgerRow(MonthStart(i), Num(100 * (1 + (i % 3))),
                      IF i % 2 = 0 THEN Str(<<"F","o","o","d">>) ELSE Str(<<"D","i","n","i","n","g">>))]) :
     n \in 1..MaxMonths}

Ledgers == SmallLedgers \cup MonthlyLedgers

----------------------------------------------------------------------------
(* BillAnalyzer: the derived columns.                                      *)

T_month       == <<"m","o","n","t","h">>
T_year        == <<"y","e","a","r">>
T_day_of_week == <<"d","a","y","_","o","f","_","w","e","e","k">>
T_week        == <<"w","e","e","k">>

\* a monthly Period, written yyyymm
Month(n) == [k |-> "month", s |-> <<>>, n |-> n, d |-> 1]

\* a weekly Period, written as the yyyymmdd of its Monday
Week(n) == [k |-> "week", s |-> <<>>, n |-> n, d |-> 1]

\* Series.dt.to_period('M') for one element
to_period_M(ts) == Month(ts.n \div 100)

\* the day before
PrevDay(ts) ==
  IF DayOf(ts) > 1 THEN Ts(ts.n - 1)
  ELSE IF MonthOf(ts) > 1
    THEN Ts(YearOf(ts) * 10000 + (MonthOf(ts) - 1) * 100
              + DaysInMonth(YearOf(ts), MonthOf(ts) - 1))
  ELSE Ts((YearOf(ts) - 1) * 10000 + 1231)

RECURSIVE DaysBack(_, _)
DaysBack(ts, n) == IF n = 0 THEN ts ELSE DaysBack(PrevDay(ts), n - 1)

\* Timestamp.weekday(): Monday is 0
weekday(ts) == (Ordinal(ts) + 6) % 7

\* Series.dt.to_period('W') for one element: the week from Monday to Sunday
to_period_W(ts) == Week(DaysBack(ts, weekday(ts)).n)

day_order ==
  << <<"M","o","n","d","a","y">>, <<"T","u","e","s","d","a","y">>, <<"W","e","d","n","e","s","d","a","y">>, <<"T","h","u","r","s","d","a","y">>, <<"F","r","i","d","a","y">>,
     <<"S","a","t","u","r","d","a","y">>, <<"S","u","n","d","a","y">> >>

\* Series.dt.day_name() for one element
day_name(ts) == Str(day_order[weekday(ts) + 1])

\* df[name] = f(df['date']), element by element
Derive(df, name, f(_)) ==
  SetColumn(df, name, [i \in 1..Len(df.rows) |-> f(GetColumn(df, T_date)[i])])

YearCell(ts) == Count(YearOf(ts))

\* the table BillAnalyzer.__init__ leaves in self.df
WithDerived(df) ==
  LET dated == SetColumn(df, T_date,
                 [i \in 1..Len(df.rows) |-> to_datetime(GetColumn(df, T_date)[i])])
  IN  Derive(Derive(Derive(Derive(dated,
        T_month, to_period_M), T_year, YearCell),
        T_day_of_week, day_name), T_week, to_period_W)

\* the objects after BillAnalyzer(df), and the object self.df refers to
BillAnalyzer_self == copy("caller", "self_df")

BillAnalyzer_heap(heap) ==
  LET copied == Copied(heap, "caller", "self_df")
  IN  [copied EXCEPT ![BillAnalyzer_self] = WithDerived(copied[BillAnalyzer_self])]

----------------------------------------------------------------------------
(* Grouping and rounding.                                                  *)

\* the ASCII characters of labels and names, in code-point order
Ascii ==
  <<" ", "-", ".">> \o Digits \o UpperLetters \o <<"_">> \o LowerLetters

Ord(c) == CHOOSE i \in 1..Len(Ascii) : Ascii[i] = c

\* a < b for Python strings
RECURSIVE Less(_, _)
Less(a, b) ==
  IF b = <<>> THEN FALSE
  ELSE IF a = <<>> THEN TRUE
  ELSE IF Head(a) = Head(b) THEN Less(Tail(a), Tail(b))
  ELSE Ord(Head(a)) < Ord(Head(b))

\* the order groupby sorts its keys in: strings as strings, everything else
\* by its number
KeyLess(a, b) == IF a.k = "str" THEN Less(a.s, b.s) ELSE a.n < b.n

RECURSIVE SortedKeys(_)
SortedKeys(S) ==
  IF S = {} THEN <<>>
  ELSE LET m == CHOOSE x \in S : \A y \in S \ {x} : KeyLess(x, y)
       IN  <<m>> \o SortedKeys(S \ {m})

\* the keys of df.groupby(name), in order; missing keys make no group
GroupKeys(df, name) ==
  SortedKeys({c \in Range(GetColumn(df, name)) : ~isna(c)})

\* the positions of the rows of a group
GroupRows(df, name, key) ==
  {i \in 1..Len(df.rows) : GetColumn(df, name)[i] = key}

\* the amounts of the rows at the given positions, in cents
AmountsAt(df, rows) ==
  LET at == Ascending(rows)
  IN  [i \in 1..Len(at) |-> GetColumn(df, T_amount)[at[i]].n]

\* n/d rounded to the nearest whole number, halves to the even one (d > 0)
Round(n, d) ==
  LET q == IF n >= 0 THEN n \div d ELSE 0 - ((0 - n + d - 1) \div d)
      r == n - q * d
  IN  IF 2 * r < d THEN q
      ELSE IF 2 * r > d THEN q + 1
      ELSE IF q % 2 = 0 THEN q ELSE q + 1

SumOfSquares(s) == SumOf([i \in 1..Len(s) |-> s[i] * s[i]])

\* n times the sum of the squared deviations from the mean
Spread(s) == Len(s) * SumOfSquares(s) - SumOf(s) * SumOf(s)

\* the aggregates 'sum', 'mean', 'count', 'std' and 'nunique' after
\* .round(2): whole cents.  The standard deviation has the denominator n - 1
\* and is missing for a single value.
agg_sum(s) == Num(SumOf(s))

agg_mean(s) == Num(Round(SumOf(s), Len(s)))

agg_count(s) == Count(Len(s))

agg_std_zero(s) ==
  IF Len(s) < 2 THEN Num(0)
  ELSE Num(CHOOSE r \in 0..(2 * SortedNumbers(s)[Len(s)]) :
             LET q == Len(s) * (Len(s) - 1)
             IN  /\ (2 * r - 1) * (2 * r - 1) * q <= 4 * Spread(s) \/ r = 0
                 /\ 4 * Spread(s) < (2 * r + 1) * (2 * r + 1) * q)

agg_std(s) ==
  IF Len(s) < 2 THEN NaN
  ELSE Num(CHOOSE r \in 0..(2 * SortedNumbers(s)[Len(s)]) :
             LET q == Len(s) * (Len(s) - 1)
             IN  /\ (2 * r - 1) * (2 * r - 1) * q <= 4 * Spread(s) \/ r = 0
                 /\ 4 * Spread(s) < (2 * r + 1) * (2 * r + 1) * q)

nunique(df, name, rows) ==
  Count(Cardinality({GetColumn(df, name)[i] : i \in rows} \ {NaN, NaT}))

\* str(n) padded with zeros to the given width
RECURSIVE Padded(_, _)
Padded(n, width) ==
  IF width = 0 THEN <<>>
  ELSE Append(Padded(n \div 10, width - 1), Digits[(n % 10) + 1])

\* Period.astype(str): 'YYYY-MM'
MonthStr(cell) ==
  Str(Padded(cell.n \div 100, 4) \o <<"-">> \o Padded(cell.n % 100, 2))

\* a view: the rows the given keys make, under the given labels
View(columns, keys, row(_)) ==
  Table(columns, [g \in 1..Len(keys) |-> row(keys[g])])

----------------------------------------------------------------------------
(* BillAnalyzer: the queries.  Each takes the table self.df refers to and  *)
(* gives the results the call can have.                                    *)

\* BillAnalyzer.get_monthly_spending
monthly_spending(df) ==
  LET row(key) ==
        LET rows == GroupRows(df, T_month, key)
            amounts == AmountsAt(df, rows)
        IN  <<MonthStr(key), agg_sum(amounts), agg_mean(amounts),
              agg_count(amounts), nunique(df, T_category, rows)>>
  IN  View(<< T_month, <<"t","o","t","a","l","_","a","m","o","u","n","t">>, <<"a","v","g","_","a","m","o","u","n","t">>,
              <<"t","r","a","n","s","a","c","t","i","o","n","_","c","o","u","n","t">>, <<"c","a","t","e","g","o","r","y","_","c","o","u","n","t">> >>,
           GroupKeys(df, T_month), row)

get_monthly_spending(df) == {Returned(monthly_spending(df), <<>>)}

\* (category total / total_amount * 100).round(1); 0/0 is a missing value
percentage(amount, total_amount) ==
  IF total_amount = 0 THEN NaN
  ELSE Num(10 * Round(amount * 1000, total_amount))

\* the orders sort_values(by, ascending=False) may leave the rows in: the
\* default quicksort leaves rows of equal key in any order
sort_descending(view, by) ==
  LET keys == [i \in 1..Len(view.rows) |-> 0 - GetColumn(view, by)[i].n]
  IN  {TakeRows(view, [i \in 1..Len(view.rows) |-> p[i]]) :
         p \in SortOrders(keys)}

\* BillAnalyzer.get_category_summary
get_category_summary(df) ==
  LET total_amount == SumOf(AmountsAt(df, 1..Len(df.rows)))
      row(key) ==
        LET amounts == AmountsAt(df, GroupRows(df, T_category, key))
        IN  <<key, agg_sum(amounts), agg_mean(amounts), agg_count(amounts),
              agg_std(amounts), percentage(SumOf(amounts), total_amount)>>
      category_summary ==
        View(<< T_category, T_amount, <<"a","v","g","_","a","m","o","u","n","t">>, <<"c","o","u","n","t">>,
                <<"s","t","d","_","a","m","o","u","n","t">>, <<"p","e","r","c","e","n","t","a","g","e">> >>,
             GroupKeys(df, T_category), row)
  IN  {Returned(sorted, <<>>) : sorted \in sort_descending(category_summary, T_amount)}

----------------------------------------------------------------------------
\* the rows of a view left in the order of the group keys
InListOrder_unsorted(view, name, order) == view

\* the rows of a view in the order of the given fixed list of names, names
\* outside the list last
InListOrder(view, name, order) ==
  LET place(i) ==
        LET s == GetColumn(view, name)[i].s
        IN  IF \E o \in 1..Len(order) : order[o] = s
            THEN CHOOSE o \in 1..Len(order) : order[o] = s
            ELSE Len(order) + i
      rows == 1..Len(view.rows)
      at == SortedNumbers([i \in rows |-> place(i) * (Len(view.rows) + 1) + i])
  IN  TakeRows(view, [i \in rows |-> at[i] % (Len(view.rows) + 1)])

\* the weekly pattern of a table that has the column day_of_week
weekly_pattern(df) ==
  LET row(key) ==
        LET amounts == AmountsAt(df, GroupRows(df, T_day_of_week, key))
        IN  <<key, agg_mean(amounts), agg_sum(amounts), agg_count(amounts)>>
  IN  InListOrder(
        View(<< T_day_of_week, <<"a","v","g","_","a","m","o","u","n","t">>, <<"t","o","t","a","l","_","a","m","o","u","n","t">>,
                <<"t","r","a","n","s","a","c","t","i","o","n","_","c","o","u","n","t">> >>,
             GroupKeys(df, T_day_of_week), row),
        T_day_of_week, day_order)

\* the table get_weekly_patterns(df) works on: a copy of the table passed
\* in, with the column day_of_week added if it lacks it
WithDayOfWeek(df) ==
  IF HasColumn(df.columns, T_day_of_week) THEN df
  ELSE Derive(df, T_day_of_week, day_name)

\* BillAnalyzer.get_weekly_patterns, without a table (given = FALSE: the
\* query reads self.df) and with the table "passed"
get_weekly_patterns(heap, self_df, given) ==
  {Returned(weekly_pattern(IF given THEN WithDayOfWeek(heap["passed"])
                                    ELSE heap[self_df]), <<>>)}

get_weekly_patterns_heap(heap, given) ==
  IF ~given THEN heap
  ELSE LET df == copy("passed", "local")
           copied == Copied(heap, "passed", "local")
       IN  Return([copied EXCEPT ![df] = WithDayOfWeek(copied[df])])

T_season == <<"s","e","a","s","o","n">>

get_season(month) ==
  IF month \in {12, 1, 2} THEN <<"W","i","n","t","e","r">>
  ELSE IF month \in {3, 4, 5} THEN <<"S","p","r","i","n","g">>
  ELSE IF month \in {6, 7, 8} THEN <<"S","u","m","m","e","r">>
  ELSE <<"F","a","l","l">>

SeasonCell(ts) == Str(get_season(MonthOf(ts)))

season_order == << <<"S","p","r","i","n","g">>, <<"S","u","m","m","e","r">>, <<"F","a","l","l">>, <<"W","i","n","t","e","r">> >>

\* self.df['season'] = self.df['date'].dt.month.map(get_season)
WithSeason(df) == Derive(df, T_season, SeasonCell)

\* BillAnalyzer.get_seasonal_analysis
get_seasonal_analysis(df) ==
  LET seasons == WithSeason(df)
      row(key) ==
        LET amounts == AmountsAt(seasons, GroupRows(seasons, T_season, key))
        IN  <<key, agg_mean(amounts), agg_sum(amounts), agg_count(amounts)>>
  IN  {Returned(InListOrder(
         View(<< T_season, <<"a","v","g","_","a","m","o","u","n","t">>, <<"t","o","t","a","l","_","a","m","o","u","n","t">>,
                 <<"t","r","a","n","s","a","c","t","i","o","n","_","c","o","u","n","t">> >>,
              GroupKeys(seasons, T_season), row),
         T_season, season_order), <<>>)}

get_seasonal_analysis_heap(heap, self_df) ==
  [heap EXCEPT ![self_df] = WithSeason(heap[self_df])]

\* BillAnalyzer.get_yearly_comparison: with two years or more, the two keys
\* of the groupby are both named 'date', and reset_index cannot insert the
\* second column of that name
get_yearly_comparison(df) ==
  IF Cardinality(Range(GetColumn(df, T_year))) < 2
  THEN {Returned(NoFrame, <<>>)}
  ELSE {Raised("ValueError", "cannot insert date, already exists", <<>>)}

----------------------------------------------------------------------------
\* the rows of a table in the order of the given keys, which are different
\* whole numbers >= 0
SortedBy(df, keys) ==
  LET n == Len(df.rows) + 1
      at == SortedNumbers([i \in 1..Len(df.rows) |-> keys[i] * n + i])
  IN  TakeRows(df, [i \in 1..Len(df.rows) |-> at[i] % n])

\* a string 'YYYY-MM' parses to the Timestamp of the first day of the month
ParseMonth(s) ==
  IF /\ Len(s) = 7 /\ s[5] = "-"
     /\ AllDigits(SubSeq(s, 1, 4)) /\ AllDigits(SubSeq(s, 6, 7))
     /\ DigitsValue(SubSeq(s, 6, 7)) \in 1..12
  THEN Ts(DigitsValue(SubSeq(s, 1, 4)) * 10000
            + DigitsValue(SubSeq(s, 6, 7)) * 100 + 1)
  ELSE NaT

\* a float beyond every number
Inf == [k |-> "inf", s |-> <<>>, n |-> 0, d |-> 1]

\* (current / previous - 1) * 100, in hundredths of a percent: a division
\* of 0 by 0 is a missing value, any other division by 0 is infinite
pct_change(previous, current) ==
  IF previous # 0 THEN Float((current - previous) * 10000, previous)
  ELSE IF current = 0 THEN NaN ELSE Inf

\* df.dropna(): the rows without a missing value
dropna_any(df) ==
  TakeRows(df, Ascending({i \in 1..Len(df.rows) :
                            \A j \in 1..Len(df.columns) : ~isna(df.rows[i][j])}))

\* the growth table without the early return and with the first rows kept
calculate_growth_rates_keep(df) ==
  LET monthly == monthly_spending(df)
      total == [i \in 1..Len(monthly.rows) |->
                  GetColumn(monthly, <<"t","o","t","a","l","_","a","m","o","u","n","t">>)[i].n]
  IN  {Returned(
         Table(<< T_month, <<"t","o","t","a","l","_","a","m","o","u","n","t">>, <<"m","o","m","_","g","r","o","w","t","h">> >>,
               [i \in 1..Len(monthly.rows) |->
                  <<monthly.rows[i][1], Num(total[i]),
                    IF i > 1 THEN pct_change(total[i - 1], total[i]) ELSE NaN>>]),
         <<>>)}

\* BillAnalyzer.calculate_growth_rates
calculate_growth_rates(df) ==
  LET monthly == monthly_spending(df)
  IN  IF Len(monthly.rows) < 2 THEN {Returned(NoFrame, <<>>)}
      ELSE
        LET monthly_data ==
              SortedBy(monthly,
                [i \in 1..Len(monthly.rows) |->
                   ParseMonth(GetColumn(monthly, T_month)[i].s).n])
            rows == 1..Len(monthly_data.rows)
            total == [i \in rows |->
                        GetColumn(monthly_data, <<"t","o","t","a","l","_","a","m","o","u","n","t">>)[i].n]
            mom_growth == [i \in rows |->
                             IF i > 1 THEN pct_change(total[i - 1], total[i])
                             ELSE NaN]
            yoy_growth == [i \in rows |->
                             IF i > 12 THEN pct_change(total[i - 12], total[i])
                             ELSE NaN]
            growth_summary ==
              Frame(<< T_month, <<"t","o","t","a","l","_","a","m","o","u","n","t">>, <<"m","o","m","_","g","r","o","w","t","h">> >>
                      \o (IF Len(monthly_data.rows) >= 12 THEN << <<"y","o","y","_","g","r","o","w","t","h">> >> ELSE <<>>),
                    [i \in rows |->
                       <<GetColumn(monthly_data, T_month)[i], Num(total[i]),
                         mom_growth[i]>>
                         \o (IF Len(monthly_data.rows) >= 12 THEN <<yoy_growth[i]>> ELSE <<>>)],
                    monthly_data.index)
        IN  {Returned(dropna_any(growth_summary), <<>>)}

T_amount_zscore == <<"a","m","o","u","n","t","_","z","s","c","o","r","e">>

\* the square root of n/d, in lowest terms (d > 0)
Root(n, d) == [Float(n, d) EXCEPT !.k = "sqrt"]

\* np.abs((amount - mean) / std) for the i-th of the amounts: missing when
\* the standard deviation is missing (one amount) or 0 (equal amounts)
zscore(amounts, i) ==
  LET n == Len(amounts)
      dev == n * amounts[i] - SumOf(amounts)
  IN  IF n < 2 \/ Spread(amounts) = 0 THEN NaN
      ELSE Root(dev * dev * (n - 1), n * Spread(amounts))

\* self.df['amount_zscore'] = ...
WithZscore(df) ==
  LET amounts == AmountsAt(df, 1..Len(df.rows))
  IN  SetColumn(df, T_amount_zscore,
        [i \in 1..Len(df.rows) |-> zscore(amounts, i)])

\* BillAnalyzer.detect_anomalies: the rows with a z-score above 2, highest
\* first, rows of equal z-score in any order
detect_anomalies(df) ==
  LET scored == WithZscore(df)
      z(i) == GetColumn(scored, T_amount_zscore)[i]
      anomalies ==
        TakeRows(scored, Ascending({i \in 1..Len(scored.rows) :
                                      z(i).k = "sqrt" /\ z(i).n > 4 * z(i).d}))
      za(i) == GetColumn(anomalies, T_amount_zscore)[i]
      picked == << T_date, T_description, T_amount, T_category, T_amount_zscore >>
  IN  {Returned(
         Frame(picked,
               [i \in 1..Len(anomalies.rows) |->
                  [c \in 1..Len(picked) |->
                     anomalies.rows[p[i]][ColumnOf(anomalies.columns, picked[c])]]],
               [i \in 1..Len(anomalies.rows) |-> anomalies.index[p[i]]]),
         <<>>) :
         p \in {q \in Permutations(1..Len(anomalies.rows)) :
                  \A i, j \in 1..Len(anomalies.rows) :
                     i < j => za(q[i]).n * za(q[j]).d >= za(q[j]).n * za(q[i]).d}}

detect_anomalies_heap(heap, self_df) ==
  [heap EXCEPT ![self_df] = WithZscore(heap[self_df])]

\* Timestamp.strftime('%Y-%m-%d')
strftime(ts) ==
  Padded(YearOf(ts), 4) \o <<"-">> \o Padded(MonthOf(ts), 2)
    \o <<"-">> \o Padded(DayOf(ts), 2)

\* df.groupby(name)['amount'].sum().idxmax(): the first of the keys, in
\* their order, with the highest total
idxmax(df, name) ==
  LET keys == GroupKeys(df, name)
      total(g) == SumOf(AmountsAt(df, GroupRows(df, name, keys[g])))
  IN  keys[CHOOSE g \in 1..Len(keys) :
             /\ \A h \in 1..Len(keys) : total(h) <= total(g)
             /\ \A h \in 1..(g - 1) : total(h) < total(g)]

ReportTypes ==
  {"Monthly Summary", "Category Analysis", "Yearly Report", "Custom Analysis",
   "Weekly Summary"}

\* BillAnalyzer.generate_report
generate_report(df, report_type) ==
  IF report_type = "Monthly Summary" THEN get_monthly_spending(df)
  ELSE IF report_type = "Category Analysis" THEN get_category_summary(df)
  ELSE IF report_type = "Yearly Report" THEN
    LET row(key) ==
          LET rows == GroupRows(df, T_year, key)
              amounts == AmountsAt(df, rows)
          IN  <<key, agg_sum(amounts), agg_mean(amounts), agg_count(amounts),
                nunique(df, T_category, rows)>>
    IN  {Returned(View(<< T_year, <<"t","o","t","a","l","_","a","m","o","u","n","t">>, <<"a","v","g","_","a","m","o","u","n","t">>,
                          <<"t","r","a","n","s","a","c","t","i","o","n","_","c","o","u","n","t">>, <<"c","a","t","e","g","o","r","y","_","c","o","u","n","t">> >>,
                       GroupKeys(df, T_year), row), <<>>)}
  ELSE IF report_type = "Custom Analysis" THEN
    LET amounts == AmountsAt(df, 1..Len(df.rows))
        dates == SortedNumbers([i \in 1..Len(df.rows) |->
                                  GetColumn(df, T_date)[i].n])
    IN  {Returned(
           Table(<< <<"T","o","t","a","l"," ","S","p","e","n","d","i","n","g">>, <<"A","v","e","r","a","g","e"," ","T","r","a","n","s","a","c","t","i","o","n">>,
                    <<"T","r","a","n","s","a","c","t","i","o","n"," ","C","o","u","n","t">>, <<"D","a","t","e"," ","R","a","n","g","e">>, <<"T","o","p"," ","C","a","t","e","g","o","r","y">>,
                    <<"T","o","p"," ","M","e","r","c","h","a","n","t">> >>,
                 << << Num(SumOf(amounts)),
                       Float(SumOf(amounts), Len(amounts)),
                       Count(Len(df.rows)),
                       Str(strftime(Ts(dates[1])) \o <<" ","t","o"," ">>
                             \o strftime(Ts(dates[Len(dates)]))),
                       idxmax(df, T_category),
                       idxmax(df, T_description) >> >>),
           <<>>)}
  ELSE {Returned(NoFrame, <<>>)}

----------------------------------------------------------------------------
(* BillAnalyzer: the calls of show_category_calculator.                    *)

\* the methods the class BillAnalyzer defines
BillAnalyzerMethods ==
  {"__init__", "get_monthly_spending", "get_category_summary",
   "get_weekly_patterns", "get_spending_trends", "get_category_trends",
   "compare_categories", "get_seasonal_analysis", "get_yearly_comparison",
   "calculate_growth_rates", "detect_anomalies", "get_top_merchants",
   "calculate_savings_potential", "generate_report"}

\* what the attribute lookup analyzer.<name> ends in when the class does not
\* define the name
getattr(name) ==
  IF name \in BillAnalyzerMethods THEN {}
  ELSE {Raised("AttributeError", "'BillAnalyzer' object has no attribute", <<>>)}

\* analyzer.calculate_category_metrics(selected_categories=..., date_range=...):
\* the class has no method of that name, the call ends in the lookup
calculate_category_metrics(df, selected_categories, date_range) ==
  getattr("calculate_category_metrics")

\* analyzer.get_category_predictions(prediction_category, months_ahead):
\* the class has no method of that name either
get_category_predictions(df, prediction_category, months_ahead) ==
  getattr("get_category_predictions")

\* analyzer.compare_category_periods(comparison_category, period1_dt,
\* period2_dt): the class has no method of that name either
compare_category_periods(df, category, period1, period2) ==
  getattr("compare_category_periods")

\* the values of the slider "Months to predict" that are tried
MonthsAhead == {1, 3, 12}

----------------------------------------------------------------------------
(* InsightsGenerator.  A rule gives the results it can have on the table   *)
(* self.df: the list of its observations, each written as a short tag (and *)
(* the category it names), or the exception it raises.                     *)

T_hour == <<"h","o","u","r">>

\* the Timestamps of a ledger carry no time of day
hour(ts) == Count(0)

\* the table InsightsGenerator.__init__ leaves in self.df
InsightsGenerator_df(df) ==
  Derive(Derive(Derive(df, T_month, to_period_M), T_day_of_week, day_name),
         T_hour, hour)

\* the concatenation of a sequence of sequences
RECURSIVE Flatten(_)
Flatten(seqs) ==
  IF seqs = <<>> THEN <<>> ELSE Head(seqs) \o Flatten(Tail(seqs))

\* numbers divided by their greatest common divisor: comparisons of ratios
\* of them are the same, on smaller numbers
Scaled(s) ==
  LET RECURSIVE gcd(_)
      gcd(i) == IF i = 0 THEN 0 ELSE GCD(gcd(i - 1), s[i])
      g == gcd(Len(s))
  IN  IF g = 0 THEN s ELSE [i \in 1..Len(s) |-> s[i] \div g]

\* df.groupby(name)['amount'].sum(): the totals of the groups, in key order
TotalsBy(df, name) ==
  LET keys == GroupKeys(df, name)
  IN  [g \in 1..Len(keys) |-> SumOf(AmountsAt(df, GroupRows(df, name, keys[g])))]

\* twice the median of a sequence of numbers that is not empty
TwiceMedian(s) ==
  LET sorted == SortedNumbers(s)
      n == Len(s)
  IN  IF n % 2 = 1 THEN 2 * sorted[(n + 1) \div 2]
      ELSE sorted[n \div 2] + sorted[n \div 2 + 1]

\* InsightsGenerator.analyze_spending_patterns.  On an empty table the mean
\* and the median are missing values and every comparison with them is false.
analyze_spending_patterns(df) ==
  LET amounts == AmountsAt(df, 1..Len(df.rows))
      n == Len(amounts)
      dates == [i \in 1..n |-> Ordinal(GetColumn(df, T_date)[i])]
      days_span == IF n = 0 THEN 0
                   ELSE SortedNumbers(dates)[n] - SortedNumbers(dates)[1]
      monthly_totals == Scaled(TotalsBy(df, T_month))
      m == Len(monthly_totals)
      increasing == \A i \in 1..(m - 1) : monthly_totals[i] <= monthly_totals[i + 1]
      decreasing == \A i \in 1..(m - 1) : monthly_totals[i] >= monthly_totals[i + 1]
      \* variance > (mean * 0.3) ** 2
      varies == 100 * m * Spread(monthly_totals)
                  > 9 * (m - 1) * SumOf(monthly_totals) * SumOf(monthly_totals)
  IN  {ReturnedLabels(
         << <<"t","o","t","a","l"," ","s","p","e","n","d","i","n","g">>, <<"a","v","e","r","a","g","e"," ","t","r","a","n","s","a","c","t","i","o","n">> >>
         \o (IF days_span > 0 THEN << <<"t","r","a","n","s","a","c","t","i","o","n","s"," ","p","e","r"," ","d","a","y">> >> ELSE <<>>)
         \o (IF n > 0 /\ 4 * SumOf(amounts) > 3 * n * TwiceMedian(amounts)
             THEN << <<"f","e","w"," ","h","i","g","h","-","v","a","l","u","e"," ","t","r","a","n","s","a","c","t","i","o","n","s">> >> ELSE <<>>)
         \o (IF m > 1
             THEN IF increasing THEN << <<"u","p","w","a","r","d"," ","t","r","e","n","d">> >>
                  ELSE IF decreasing THEN << <<"d","o","w","n","w","a","r","d"," ","t","r","e","n","d">> >>
                  ELSE IF varies THEN << <<"v","a","r","i","e","s"," ","m","o","n","t","h"," ","t","o"," ","m","o","n","t","h">> >>
                  ELSE <<>>
             ELSE <<>>))}

\* the sign np.polyfit(range(len(y)), y, 1)[0] can have compared with the
\* bounds 0 and -10: 1 when the slope is above 0, -1 when it is below -10.00,
\* else 0.  The slope of a flat series is a rounding residue of either sign.
TrendSigns(y) ==
  LET m == Len(y)
      sx == SumOf([i \in 1..m |-> i - 1])
      sxx == SumOf([i \in 1..m |-> (i - 1) * (i - 1)])
      sxy == SumOf([i \in 1..m |-> (i - 1) * y[i]])
      num == m * sxy - sx * SumOf(y)
      den == m * sxx - sx * sx
  IN  IF num > 0 THEN {1}
      ELSE IF num = 0 THEN {0, 1}
      ELSE IF num < (0 - 1000) * den THEN {-1}
      ELSE {0}

\* InsightsGenerator.analyze_category_behavior.  category_spending.index[0]
\* is out of bounds when no row has a category.
analyze_category_behavior(df) ==
  LET keys == GroupKeys(df, T_category)
      totals == View(<<T_category, T_amount>>, keys,
                     LAMBDA key : <<key, Num(SumOf(AmountsAt(df, GroupRows(df, T_category, key))))>>)
      total_spending == SumOf(TotalsBy(df, T_category))
      months == Cardinality(Range(GetColumn(df, T_month)))
      Observed(category_spending, signs) ==
        LET k == Len(category_spending.rows)
            name(i) == category_spending.rows[i][1]
            total(i) == category_spending.rows[i][2].n
            significant == {i \in 1..k : total_spending > 0 /\ 10 * total(i) > total_spending}
            top3 == IF k < 3 THEN k ELSE 3
            consistency(i) ==
              LET category_data == Scaled(AmountsAt(df, GroupRows(df, T_category, name(i))))
                  c == Len(category_data)
                  sum == SumOf(category_data)
              IN  IF c < 2 \/ sum = 0 THEN <<>>
                  ELSE IF 4 * c * Spread(category_data) < (c - 1) * sum * sum
                  THEN << <<"c","o","n","s","i","s","t","e","n","t",":">> \o name(i).s >>
                  ELSE IF 4 * c * Spread(category_data) > 9 * (c - 1) * sum * sum
                  THEN << <<"v","a","r","i","e","s",":">> \o name(i).s >>
                  ELSE <<>>
            growth(i) ==
              IF signs[i] = 1 THEN << <<"t","r","e","n","d","i","n","g"," ","u","p","w","a","r","d",":">> \o name(i).s >>
              ELSE IF signs[i] = -1 THEN << <<"d","e","c","r","e","a","s","i","n","g",":">> \o name(i).s >>
              ELSE <<>>
        IN  << <<"h","i","g","h","e","s","t",":">> \o name(1).s >>
            \o (IF Cardinality(significant) > 1
                THEN << Flatten([i \in 1..k |->
                          IF i \in significant THEN <<"m","a","j","o","r",":">> \o name(i).s ELSE <<>>]) >>
                ELSE <<>>)
            \o Flatten([i \in 1..top3 |-> consistency(i)])
            \o (IF months > 1 THEN Flatten([i \in 1..top3 |-> growth(i)]) ELSE <<>>)
      Signs(category_spending) ==
        LET k == Len(category_spending.rows)
            rows(i) == GroupRows(df, T_category, category_spending.rows[i][1])
            monthly_category(i) ==
              TotalsBy(TakeRows(df, Ascending(rows(i))), T_month)
        IN  {s \in [1..3 -> {-1, 0, 1}] :
               \A i \in 1..3 :
                  IF i <= k /\ Len(monthly_category(i)) > 1
                  THEN s[i] \in TrendSigns(monthly_category(i))
                  ELSE s[i] = 0}
  IN  IF keys = <<>>
      THEN {Raised("IndexError", "index 0 is out of bounds for axis 0 with size 0", <<>>)}
      ELSE {ReturnedLabels(Observed(category_spending, signs)) :
              category_spending \in sort_descending(totals, T_amount),
              signs \in UNION {Signs(c) : c \in sort_descending(totals, T_amount)}}

\* calendar.month_abbr, from January
month_abbr ==
  << <<"J","a","n">>, <<"F","e","b">>, <<"M","a","r">>, <<"A","p","r">>, <<"M","a","y">>, <<"J","u","n">>,
     <<"J","u","l">>, <<"A","u","g">>, <<"S","e","p">>, <<"O","c","t">>, <<"N","o","v">>, <<"D","e","c">> >>

\* the key of the largest (smallest when sign is -1) of the averages
\* sums[g] / counts[g], the first one among equals: Series.idxmax, idxmin
ArgBest(sums, counts, sign) ==
  CHOOSE g \in 1..Len(sums) :
    /\ \A h \in 1..Len(sums) :
          sign * sums[h] * counts[g] <= sign * sums[g] * counts[h]
    /\ \A h \in 1..(g - 1) :
          sign * sums[h] * counts[g] < sign * sums[g] * counts[h]

\* InsightsGenerator.analyze_temporal_patterns.  idxmax of an empty Series
\* raises.  The hours of a ledger are all 0, outside both ranges of hours.
analyze_temporal_patterns(df) ==
  LET days == GroupKeys(df, T_day_of_week)
      daily_spending == Scaled(TotalsBy(df, T_day_of_week))
      ones == [g \in 1..Len(days) |-> 1]
      weekend_days == {Str(<<"S","a","t","u","r","d","a","y">>), Str(<<"S","u","n","d","a","y">>)}
      weekend == {g \in 1..Len(days) : days[g] \in weekend_days}
      weekdays == (1..Len(days)) \ weekend
      total(S) == SumOf([g \in 1..Len(days) |-> IF g \in S THEN daily_spending[g] ELSE 0])
      we == Cardinality(weekend)
      wd == Cardinality(weekdays)
      \* the mean of no values is a missing value: both comparisons are false
      both == we > 0 /\ wd > 0
      month_numbers == [i \in 1..Len(df.rows) |-> MonthOf(GetColumn(df, T_date)[i])]
      by_month == SortedNumbers(Unique(month_numbers))
      rows_of(mo) == {i \in 1..Len(df.rows) : month_numbers[i] = mo}
      sums == [g \in 1..Len(by_month) |-> SumOf(AmountsAt(df, rows_of(by_month[g])))]
      counts == [g \in 1..Len(by_month) |-> Cardinality(rows_of(by_month[g]))]
  IN  IF days = <<>>
      THEN {Raised("ValueError", "attempt to get argmax of an empty sequence", <<>>)}
      ELSE {ReturnedLabels(
              << <<"m","o","s","t"," ","o","n",":">> \o days[ArgBest(daily_spending, ones, 1)].s
                 \o <<" ","l","e","a","s","t"," ","o","n",":">> \o days[ArgBest(daily_spending, ones, -1)].s >>
              \o (IF both /\ 5 * total(weekend) * wd > 6 * total(weekdays) * we
                  THEN << <<"m","o","r","e"," ","o","n"," ","w","e","e","k","e","n","d","s">> >>
                  ELSE IF both /\ 5 * total(weekdays) * we > 6 * total(weekend) * wd
                  THEN << <<"m","o","r","e"," ","d","u","r","i","n","g"," ","w","e","e","k","d","a","y","s">> >>
                  ELSE <<>>)
              \o (IF Cardinality(Range(GetColumn(df, T_month))) >= 6
                  THEN << <<"h","i","g","h","e","s","t"," ","m","o","n","t","h",":">> \o month_abbr[by_month[ArgBest(sums, counts, 1)]]
                          \o <<" ","l","o","w","e","s","t",":">> \o month_abbr[by_month[ArgBest(sums, counts, -1)]] >>
                  ELSE <<>>))}

\* four times Series.quantile(q4 / 4) of a sequence that is not empty
\* (linear interpolation between the two nearest ranks)
FourQuantiles(s, q4) ==
  LET sorted == SortedNumbers(s)
      pos == q4 * (Len(s) - 1)
      low == pos \div 4 + 1
      r == pos % 4
  IN  IF r = 0 THEN 4 * sorted[low]
      ELSE (4 - r) * sorted[low] + r * sorted[low + 1]

\* InsightsGenerator.detect_unusual_behavior.  mode() of categories that
\* are all missing is empty and its iloc[0] is out of bounds; date_range
\* between the missing dates of an empty table raises.
detect_unusual_behavior(df) ==
  LET n == Len(df.rows)
      amounts == AmountsAt(df, 1..n)
      \* 8 * (Q3 + 1.5 * (Q3 - Q1))
      threshold8 == 5 * FourQuantiles(amounts, 3) - 3 * FourQuantiles(amounts, 1)
      outliers == {i \in 1..n : 8 * amounts[i] > threshold8}
      labelled == GroupKeys(TakeRows(df, Ascending(outliers)), T_category)
      times(c) == Cardinality({i \in outliers : GetColumn(df, T_category)[i] = c})
      mode == labelled[CHOOSE g \in 1..Len(labelled) :
                          /\ \A h \in 1..Len(labelled) : times(labelled[h]) <= times(labelled[g])
                          /\ \A h \in 1..(g - 1) : times(labelled[h]) < times(labelled[g])]
      dates == [i \in 1..n |-> Ordinal(GetColumn(df, T_date)[i])]
      days == SortedNumbers(Unique(dates))
      daily_spending == [d \in 1..Len(days) |->
                           SumOf(AmountsAt(df, {i \in 1..n : dates[i] = days[d]}))]
      spikes == {d \in 7..Len(days) :
                   7 * daily_spending[d] > 2 * SumOf(SubSeq(daily_spending, d - 6, d))}
      date_range == days[Len(days)] - days[1] + 1
      no_spending_days == date_range - Len(days)
  IN  IF n = 0
      THEN {Raised("ValueError", "Neither start nor end can be NaT", <<>>)}
      ELSE IF Cardinality(outliers) > 1 /\ labelled = <<>>
      THEN {Raised("IndexError", "single positional indexer is out-of-bounds", <<>>)}
      ELSE {ReturnedLabels(
              (IF outliers # {} THEN << <<"u","n","u","s","u","a","l","l","y"," ","l","a","r","g","e"," ","t","r","a","n","s","a","c","t","i","o","n","s">> >> ELSE <<>>)
              \o (IF Cardinality(outliers) > 1
                  THEN << <<"m","o","s","t"," ","l","a","r","g","e"," ","i","n",":">> \o mode.s >> ELSE <<>>)
              \o (IF Len(days) > 7 /\ spikes # {}
                  THEN << <<"d","a","y","s"," ","a","b","o","v","e"," ","w","e","e","k","l","y"," ","a","v","e","r","a","g","e">> >> ELSE <<>>)
              \o (IF 10 * no_spending_days > 3 * date_range
                  THEN << <<"d","a","y","s"," ","w","i","t","h","o","u","t"," ","t","r","a","n","s","a","c","t","i","o","n","s">> >> ELSE <<>>))}

\* the advice identify_savings_opportunities has for a category, with the
\* monthly average in dollars above which it is given
SavingsAdvice ==
  { <<<<"F","o","o","d">>, 300>>, <<<<"S","h","o","p","p","i","n","g">>, 400>>, <<<<"T","r","a","n","s","p","o","r","t","a","t","i","o","n">>, 200>>,
    <<<<"U","t","i","l","i","t","i","e","s">>, 200>>, <<<<"G","r","o","c","e","r","y">>, 400>>, <<<<"B","a","n","k">>, 100>> }

\* InsightsGenerator.identify_savings_opportunities
identify_savings_opportunities(df) ==
  LET n == Len(df.rows)
      keys == GroupKeys(df, T_category)
      months == IF n = 0 THEN 1 ELSE Cardinality(Range(GetColumn(df, T_month)))
      small(c) == {i \in GroupRows(df, T_category, c) : GetColumn(df, T_amount)[i].n < 2000}
      frequent_small(c) ==
        Cardinality(small(c)) >= 10 /\ SumOf(AmountsAt(df, small(c))) > 20000
      charges == {<<GetColumn(df, T_description)[i], GetColumn(df, T_amount)[i]>> : i \in 1..n}
      recurring == {ch \in charges :
                      /\ ~isna(ch[1])
                      /\ Cardinality({i \in 1..n :
                            /\ GetColumn(df, T_description)[i] = ch[1]
                            /\ GetColumn(df, T_amount)[i] = ch[2]}) >= 3}
      totals == View(<<T_category, T_amount>>, keys,
                     LAMBDA key : <<key, Num(SumOf(AmountsAt(df, GroupRows(df, T_category, key))))>>)
      advised(row) ==
        IF \E a \in SavingsAdvice : a[1] = row[1].s /\ row[2].n > 100 * a[2] * months
        THEN << <<"r","e","d","u","c","e",":">> \o row[1].s >> ELSE <<>>
      month_numbers == [i \in 1..n |-> MonthOf(GetColumn(df, T_date)[i])]
      by_month == SortedNumbers(Unique(month_numbers))
      monthly == Scaled([g \in 1..Len(by_month) |->
                   SumOf(AmountsAt(df, {i \in 1..n : month_numbers[i] = by_month[g]}))])
      peak_months == {g \in 1..Len(by_month) :
                        10 * Len(by_month) * monthly[g] > 13 * SumOf(monthly)}
      Observed(category_totals) ==
        LET k == Len(category_totals.rows)
        IN  Flatten([g \in 1..Len(keys) |->
               IF frequent_small(keys[g]) THEN << <<"s","m","a","l","l"," ","p","u","r","c","h","a","s","e","s",":">> \o keys[g].s >> ELSE <<>>])
            \o (IF recurring # {} THEN << <<"r","e","c","u","r","r","i","n","g"," ","c","h","a","r","g","e","s">> >> ELSE <<>>)
            \o Flatten([i \in 1..(IF k < 3 THEN k ELSE 3) |-> advised(category_totals.rows[i])])
            \o (IF months >= 6 /\ peak_months # {}
                THEN << <<"s","p","e","n","d","i","n","g"," ","p","e","a","k","s">> >> ELSE <<>>)
  IN  {ReturnedLabels(Observed(category_totals)) :
         category_totals \in sort_descending(totals, T_amount)}

\* InsightsGenerator.assess_financial_health.  The share of an empty
\* table's rows is a missing value and both of its comparisons are false.
assess_financial_health(df) ==
  LET n == Len(df.rows)
      amounts == AmountsAt(df, 1..n)
      monthly == Scaled(TotalsBy(df, T_month))
      m == Len(monthly)
      sum == SumOf(monthly)
      category_diversity == Cardinality(Range(GetColumn(df, T_category)))
      small == Cardinality({i \in 1..n : amounts[i] < 2500})
      large == Cardinality({i \in 1..n : amounts[i] > 20000})
      recent_trend3 == SumOf(SubSeq(monthly, m - 2, m)) - SumOf(SubSeq(monthly, 1, 3))
  IN  {ReturnedLabels(
         (IF m > 1 /\ sum > 0
          THEN IF 25 * m * Spread(monthly) < (m - 1) * sum * sum
               THEN << <<"c","o","n","s","i","s","t","e","n","t"," ","m","o","n","t","h","-","t","o","-","m","o","n","t","h">> >>
               ELSE IF 4 * m * Spread(monthly) > (m - 1) * sum * sum
               THEN << <<"v","a","r","i","e","s"," ","s","i","g","n","i","f","i","c","a","n","t","l","y">> >>
               ELSE <<>>
          ELSE <<>>)
         \o (IF category_diversity < 4 THEN << <<"f","e","w"," ","c","a","t","e","g","o","r","i","e","s">> >>
             ELSE IF category_diversity > 10 THEN << <<"m","a","n","y"," ","c","a","t","e","g","o","r","i","e","s">> >>
             ELSE <<>>)
         \o (IF 100 * small > 60 * n THEN << <<"u","n","d","e","r"," ","2","5">> >> ELSE <<>>)
         \o (IF 100 * large > 20 * n THEN << <<"o","v","e","r"," ","2","0","0">> >> ELSE <<>>)
         \o (IF m > 2
             THEN IF 5 * m * recent_trend3 > 3 * sum
                  THEN << <<"i","n","c","r","e","a","s","e","d"," ","i","n"," ","r","e","c","e","n","t"," ","m","o","n","t","h","s">> >>
                  ELSE IF 5 * m * recent_trend3 < 0 - 3 * sum
                  THEN << <<"d","e","c","r","e","a","s","e","d"," ","i","n"," ","r","e","c","e","n","t"," ","m","o","n","t","h","s">> >>
                  ELSE <<>>
             ELSE <<>>))}

\* the keys of the dictionary generate_all_insights builds, in its order
InsightKeys ==
  << <<"s","p","e","n","d","i","n","g","_","p","a","t","t","e","r","n","s">>, <<"c","a","t","e","g","o","r","y","_","i","n","s","i","g","h","t","s">>, <<"t","e","m","p","o","r","a","l","_","i","n","s","i","g","h","t","s">>,
     <<"a","n","o","m","a","l","y","_","i","n","s","i","g","h","t","s">>, <<"s","a","v","i","n","g","s","_","o","p","p","o","r","t","u","n","i","t","i","e","s">>, <<"f","i","n","a","n","c","i","a","l","_","h","e","a","l","t","h">> >>

\* InsightsGenerator.generate_all_insights: the six rules are called in
\* order with nothing around the calls, so the first exception of a rule
\* leaves the call; else each key is followed by its rule's observations.
generate_all_insights(df) ==
  LET rules == << analyze_spending_patterns(df), analyze_category_behavior(df),
                  analyze_temporal_patterns(df), detect_unusual_behavior(df),
                  identify_savings_opportunities(df), assess_financial_health(df) >>
      outcome(c) ==
        IF \E i \in 1..6 : c[i].status = "raised"
        THEN c[CHOOSE i \in 1..6 : /\ c[i].status = "raised"
                                   /\ \A j \in 1..(i - 1) : c[j].status # "raised"]
        ELSE ReturnedLabels(Flatten([i \in 1..6 |-> <<InsightKeys[i]>> \o c[i].labels]))
  IN  {outcome(c) : c \in {c \in [1..6 -> UNION Range(rules)] :
                             \A i \in 1..6 : c[i] \in rules[i]}}

----------------------------------------------------------------------------
(* NotionScraper (src/src/notion_scraper.py): what the scraper does with   *)
(* the rows a page gave.  The table of a page holds text cells only.       *)

True == [k |-> "bool", s |-> <<>>, n |-> 1, d |-> 1]

T_data_source    == <<"_","d","a","t","a","_","s","o","u","r","c","e">>
T_is_sample_data == <<"_","i","s","_","s","a","m","p","l","e","_","d","a","t","a">>

\* the dictionary of _standardize_columns, lines 713-756
scraper_column_mapping ==
  << <<<<"d","a","t","e">>, T_date>>, <<<<"t","r","a","n","s","a","c","t","i","o","n"," ","d","a","t","e">>, T_date>>,
     <<<<"t","r","a","n","s"," ","d","a","t","e">>, T_date>>, <<<<"p","o","s","t","i","n","g"," ","d","a","t","e">>, T_date>>,
     <<<<"w","h","e","n">>, T_date>>, <<<<"t","i","m","e">>, T_date>>,
     <<<<"a","m","o","u","n","t">>, T_amount>>, <<<<"c","o","s","t">>, T_amount>>, <<<<"p","r","i","c","e">>, T_amount>>,
     <<<<"t","o","t","a","l">>, T_amount>>, <<<<"e","x","p","e","n","s","e">>, T_amount>>, <<<<"s","p","e","n","t">>, T_amount>>,
     <<<<"m","o","n","e","y">>, T_amount>>, <<<<"v","a","l","u","e">>, T_amount>>,
     <<<<"d","e","s","c","r","i","p","t","i","o","n">>, T_description>>, <<<<"d","e","s","c">>, T_description>>,
     <<<<"m","e","r","c","h","a","n","t">>, T_description>>, <<<<"v","e","n","d","o","r">>, T_description>>,
     <<<<"s","t","o","r","e">>, T_description>>, <<<<"i","t","e","m">>, T_description>>,
     <<<<"w","h","a","t">>, T_description>>, <<<<"d","e","t","a","i","l","s">>, T_description>>,
     <<<<"c","a","t","e","g","o","r","y">>, T_category>>, <<<<"c","a","t">>, T_category>>,
     <<<<"k","i","n","d">>, T_category>>, <<<<"g","r","o","u","p">>, T_category>>,
     <<<<"a","c","c","o","u","n","t">>, T_account>>, <<<<"b","a","n","k">>, T_account>>, <<<<"c","a","r","d">>, T_account>>,
     <<<<"t","y","p","e">>, T_type>>, <<<<"t","r","a","n","s","a","c","t","i","o","n","_","t","y","p","e">>, T_type>>,
     <<<<"t","r","a","n","s","_","t","y","p","e">>, T_type>> >>

\* column_mapping.get(col, col)
ScraperMapped(col) ==
  IF \E m \in 1..Len(scraper_column_mapping) : scraper_column_mapping[m][1] = col
  THEN scraper_column_mapping[CHOOSE m \in 1..Len(scraper_column_mapping) :
                                 scraper_column_mapping[m][1] = col][2]
  ELSE col

\* str(n) of a number below 100
Decimal(n) == IF n < 10 THEN <<Digits[n + 1]>> ELSE Padded(n, 2)

\* lines 758-764: the labels in lower case and trimmed, an empty one named
\* after its place
NormalizedColumns(columns) ==
  [j \in 1..Len(columns) |->
     IF Strip(columns[j]) = <<>> THEN <<"u","n","n","a","m","e","d","_","c","o","l","u","m","n","_">> \o Decimal(j - 1)
     ELSE Strip(Lower(columns[j]))]

\* lines 769-782: the name given to each label in turn, a taken name getting
\* the first free suffix _1, _2, ...
RECURSIVE GivenNames(_, _)
GivenNames(columns, k) ==
  IF k = 0 THEN <<>>
  ELSE LET before == GivenNames(columns, k - 1)
           used == Range(before)
           mapped_col == ScraperMapped(columns[k])
           counter == CHOOSE c \in 1..k :
                        /\ (mapped_col \o <<"_">> \o Decimal(c)) \notin used
                        /\ \A b \in 1..(c - 1) :
                              (mapped_col \o <<"_">> \o Decimal(b)) \in used
       IN  Append(before,
                  IF mapped_col \in used
                  THEN mapped_col \o <<"_">> \o Decimal(counter)
                  ELSE mapped_col)

\* the table with the columns at the given places only
TakeColumns(df, places) ==
  Frame([j \in 1..Len(places) |-> df.columns[places[j]]],
        [i \in 1..Len(df.rows) |->
           [j \in 1..Len(places) |-> df.rows[i][places[j]]]],
        df.index)

\* df.loc[:, ~df.columns.duplicated()]
DropDuplicatedColumns(df) ==
  TakeColumns(df, Ascending({j \in 1..Len(df.columns) :
                 \A h \in 1..(j - 1) : df.columns[h] # df.columns[j]}))

\* NotionScraper._standardize_columns.  new_columns is a dictionary keyed
\* by label: of two equal labels both get the name given to the last.
LastNamed(columns, j) ==
  CHOOSE h \in 1..Len(columns) :
    /\ columns[h] = columns[j]
    /\ \A g \in (h + 1)..Len(columns) : columns[g] # columns[j]

RenamedColumns(columns, given) ==
  [j \in 1..Len(columns) |-> given[LastNamed(columns, j)]]

NewColumns(columns) == RenamedColumns(columns, GivenNames(columns, Len(columns)))

_standardize_columns(df) ==
  DropDuplicatedColumns(
    Frame(NewColumns(NormalizedColumns(df.columns)), df.rows, df.index))

\* 'amount' in col.lower(), 'date' in col.lower()
Contains(word, s) ==
  \E i \in 1..(Len(s) - Len(word) + 1) :
     SubSeq(Lower(s), i, i + Len(word) - 1) = word

\* the first label that contains the word renamed to the word
PrimaryRenamed(df, word) ==
  LET with == {j \in 1..Len(df.columns) : Contains(word, df.columns[j])}
      primary == CHOOSE j \in with : \A h \in with : j <= h
  IN  IF with = {} THEN df
      ELSE Frame([df.columns EXCEPT ![primary] = word], df.rows, df.index)

\* .astype(str).str.replace('$', '').str.replace(',', '')
\* .str.replace('(', '-').str.replace(')', '')
RECURSIVE AmountText(_)
AmountText(s) ==
  IF s = <<>> THEN <<>>
  ELSE LET c == Head(s)
       IN  (IF c \in {"$", ",", ")"} THEN <<>>
            ELSE IF c = "(" THEN <<"-">> ELSE <<c>>) \o AmountText(Tail(s))

\* one amount of a page, cleaned and read; a number is left as it is (its
\* text reads back as the same number)
CleanAmount(cell) ==
  IF cell.k = "num" THEN cell ELSE to_numeric(Str(AmountText(AsTypeStr(cell))))

\* the day of the run, for pd.Timestamp.now()
Timestamp_now == Ts(20250201)

\* the column added when absent, every row holding the value
WithDefault(df, name, value) ==
  IF HasColumn(df.columns, name) THEN df
  ELSE SetColumn(df, name, [i \in 1..Len(df.rows) |-> value])

\* the frame an except clause of the scraper returns: pd.DataFrame() when
\* no row is left, else the table as it was when the exception was raised
Caught(df) == IF df.rows = <<>> THEN NoFrame ELSE df

\* two columns under one name: df[name] is a table, not a column, and the
\* cleaning of the column raises
Twice(df, name) == Cardinality(ColumnsNamed(df.columns, name)) > 1

\* the rows whose cell under the name passes the test
RowsWhere(df, name, Keep(_)) ==
  TakeRows(df, Ascending({i \in 1..Len(df.rows) : Keep(GetColumn(df, name)[i])}))

\* lines 812-821
AbsAmounts(valid) ==
  SetColumn(valid, T_amount,
    [i \in 1..Len(valid.rows) |-> abs(GetColumn(valid, T_amount)[i])])

CleanAmounts(df) ==
  AbsAmounts(RowsWhere(
    SetColumn(df, T_amount,
      [i \in 1..Len(df.rows) |-> CleanAmount(GetColumn(df, T_amount)[i])]),
    T_amount, LAMBDA c : ~isna(c)))

\* lines 833-837
CleanDates(df) ==
  RowsWhere(SetColumn(df, T_date,
              [i \in 1..Len(df.rows) |-> to_datetime(GetColumn(df, T_date)[i])]),
            T_date, LAMBDA c : ~isna(c))

\* the first label that contains one of 'description', 'desc', 'merchant',
\* 'vendor' renamed to description
DescriptionRenamed(df) ==
  LET with == {j \in 1..Len(df.columns) :
                 \E word \in {<<"d","e","s","c">>, <<"m","e","r","c","h","a","n","t">>, <<"v","e","n","d","o","r">>} :
                    Contains(word, df.columns[j])}
      primary == CHOOSE j \in with : \A h \in with : j <= h
  IN  IF with = {} THEN df
      ELSE Frame([df.columns EXCEPT ![primary] = T_description], df.rows, df.index)

\* lines 849-851
CleanDescriptions(df) ==
  RowsWhere(CleanDescription(df), T_description,
            LAMBDA c : c.s # <<>> /\ c.s # <<"n","a","n">>)

\* lines 865-879: categories are kept when one of them means something
Meaningful(cat) ==
  /\ ~isna(cat)
  /\ cat.s \notin {Other, <<>>, <<"o","t","h","e","r">>, <<"O","T","H","E","R">>}

Labelled(df, labels) ==
  SetColumn(df, T_category, [i \in 1..Len(df.rows) |-> Str(labels[i])])

Categorized(df) ==
  IF /\ HasColumn(df.columns, T_category)
     /\ \E i \in 1..Len(df.rows) : Meaningful(GetColumn(df, T_category)[i])
  THEN df
  ELSE IF HasColumn(df.columns, T_description)
  THEN Labelled(df, auto_categorize(GetColumn(df, T_description)))
  ELSE Labelled(df, [i \in 1..Len(df.rows) |-> Other])

\* lines 881-902
Required(reset) ==
  IF reset.rows = <<>> THEN reset
  ELSE WithDefault(WithDefault(WithDefault(reset,
         T_date, Timestamp_now), T_amount, Num(0)),
         T_description, Str(<<"U","n","k","n","o","w","n"," ","T","r","a","n","s","a","c","t","i","o","n">>))

ResetIndex(df) == Table(df.columns, df.rows)

Completed(df) ==
  Required(ResetIndex(
    WithDefault(WithDefault(df, T_account, Str(<<"M","a","i","n"," ","A","c","c","o","u","n","t">>)),
                T_type, Str(<<"E","x","p","e","n","s","e">>))))

\* what the try block of _clean_scraped_data reaches: a table, by an
\* exception or not
Reached(df, raised) == [df |-> df, raised |-> raised]

\* lines 855-902, c being the table with its category column renamed
CleanFromCategories(c) ==
  IF Twice(c, T_category) THEN Reached(c, TRUE)
  ELSE Reached(Completed(Categorized(c)), FALSE)

\* lines 841-902, s being the table with its description column renamed
CleanFromDescriptions(s) ==
  IF Twice(s, T_description) THEN Reached(s, TRUE)
  ELSE CleanFromCategories(PrimaryRenamed(
         IF HasColumn(s.columns, T_description) THEN CleanDescriptions(s) ELSE s,
         T_category))

\* lines 825-902, d being the table with its date column renamed
CleanFromDates(d) ==
  IF Twice(d, T_date) THEN Reached(d, TRUE)
  ELSE CleanFromDescriptions(DescriptionRenamed(
         IF HasColumn(d.columns, T_date) THEN CleanDates(d) ELSE d))

\* lines 805-902, a being the table with its amount column renamed
CleanFromAmounts(a) ==
  IF Twice(a, T_amount) THEN Reached(a, TRUE)
  ELSE CleanFromDates(PrimaryRenamed(
         IF HasColumn(a.columns, T_amount) THEN CleanAmounts(a) ELSE a,
         T_date))

\* df.dropna(how='all')
DropEmptyRows(df) ==
  TakeRows(df, Ascending({i \in 1..Len(df.rows) :
                 \E j \in 1..Len(df.columns) : ~isna(df.rows[i][j])}))

\* the try block of _clean_scraped_data
CleanTried(df) == CleanFromAmounts(PrimaryRenamed(DropEmptyRows(df), T_amount))

\* the except clause and the return
CleanEnded(tried) == IF tried.raised THEN Caught(tried.df) ELSE tried.df

\* NotionScraper._clean_scraped_data
_clean_scraped_data(df) == CleanEnded(CleanTried(df))

\* NotionScraper._process_scraped_data
_process_scraped_data(df) ==
  IF df.rows = <<>> THEN df
  ELSE _clean_scraped_data(_standardize_columns(df))

----------------------------------------------------------------------------
(* Sample data and the way from a Notion page to a ledger.                 *)

\* categories_data and one description of each, in the order of the source
SampleCategories ==
  << <<<<"F","o","o","d">>, 2500, <<"B","e","e","r">>>>, <<<<"G","r","o","c","e","r","y">>, 7500, <<"S","a","f","e","w","a","y">>>>,
     <<<<"U","t","i","l","i","t","i","e","s">>, 12000, <<"I","k","e","a">>>>, <<<<"B","a","n","k">>, 5000, <<"P","P","P">>>>,
     <<<<"T","r","a","n","s","p","o","r","t","a","t","i","o","n">>, 3500, <<"C","a","r"," ","W","a","s","h">>>>,
     <<<<"S","h","o","p","p","i","n","g">>, 8500, <<"H","o","m","e"," ","D","e","p","o","t">>>>,
     <<<<"E","n","t","e","r","t","a","i","n","m","e","n","t">>, 4000, <<"S","p","o","r","t","s"," ","B","a","r">>>>,
     <<<<"O","t","h","e","r">>, 5000, <<"M","i","s","c","e","l","l","a","n","e","o","u","s">>>> >>

\* pd.date_range over the twelve months before the day of the run, with
\* periods = n: the i-th of n days, none later than the next
SampleDate(i, n) ==
  LET t == ((i - 1) * 336) \div n
      m == t \div 28
  IN  Ts((IF m = 11 THEN 2025 ELSE 2024) * 10000
         + (((m + 1) % 12) + 1) * 100 + (t % 28) + 1)

\* DataProcessor.create_sample_data: n transactions in date order.  The
\* draws of the seeded generator are taken in turn from the categories.
create_sample_data(n) ==
  Table(LedgerLayout,
        [i \in 1..n |->
           LET c == SampleCategories[((i - 1) % Len(SampleCategories)) + 1]
           IN  <<SampleDate(i, n), Num(c[2]), Str(c[3]), Str(c[1]),
                 Str(<<"M","a","i","n"," ","C","h","e","c","k","i","n","g">>), Str(<<"E","x","p","e","n","s","e">>)>>])

\* df[name] = value
Assign(df, name, value) ==
  SetColumn(df, name, [i \in 1..Len(df.rows) |-> value])

\* NotionScraper._create_fallback_data
_create_fallback_data ==
  Assign(Assign(create_sample_data(FallbackRows),
                T_data_source, Str(<<"s","a","m","p","l","e","_","f","a","l","l","b","a","c","k">>)),
         T_is_sample_data, True)

\* DataFrame.empty
empty(df) == df.rows = <<>> \/ df.columns = <<>>

\* the pages scraped: a table of two transactions, one whose amounts do not
\* read as numbers, one whose dates are not in the format, one without
\* descriptions, one with two amount columns, and a page without a table
PageRow(date, cost, item) == <<Str(date), Str(cost), Str(item)>>

PageTables ==
  {Table(<<<<"D","a","t","e">>, <<"C","o","s","t">>, <<"I","t","e","m">>>>,
         <<PageRow(<<"2","0","2","4","-","0","3","-","1","1">>, <<"$","1","2",".","5","0">>, <<"S","t","a","r","b","u","c","k","s"," ","C","o","f","f","e","e">>),
           PageRow(<<"2","0","2","4","-","0","1","-","0","5">>, <<"(","3",".","0","0",")">>, <<" ","S","a","f","e","w","a","y"," ">>)>>),
   Table(<<<<"D","a","t","e">>, <<"C","o","s","t">>, <<"I","t","e","m">>>>,
         <<PageRow(<<"2","0","2","4","-","0","3","-","1","1">>, <<"n","/","a">>, <<"S","t","a","r","b","u","c","k","s"," ","C","o","f","f","e","e">>)>>),
   Table(<<<<"D","a","t","e">>, <<"C","o","s","t">>, <<"I","t","e","m">>>>,
         <<PageRow(<<"1","1","/","0","3","/","2","0","2","4">>, <<"1","2",".","5","0">>, <<"S","t","a","r","b","u","c","k","s"," ","C","o","f","f","e","e">>)>>),
   Table(<<<<"D","a","t","e">>, <<"C","o","s","t">>>>,
         <<<<Str(<<"2","0","2","4","-","0","3","-","1","1">>), Str(<<"1","2",".","5","0">>)>>>>),
   Table(<<<<"A","m","o","u","n","t"," ","P","a","i","d">>, <<"C","o","s","t">>, <<"D","a","t","e">>>>,
         <<PageRow(<<"1","2",".","5","0">>, <<"1","2",".","5","0">>, <<"2","0","2","4","-","0","3","-","1","1">>)>>),
   NoFrame}

\* the table of two transactions
GoodTable == CHOOSE t \in PageTables : Len(t.rows) = 2

\* each table for Selenium with nothing for requests, an exception in
\* Selenium with either answer of requests, and nothing for Selenium with
\* the table for requests
Pages ==
  {[selenium |-> t, raises |-> FALSE, requests |-> NoFrame] : t \in PageTables}
    \cup {[selenium |-> GoodTable, raises |-> TRUE, requests |-> q] :
             q \in {NoFrame, GoodTable}}
    \cup {[selenium |-> NoFrame, raises |-> FALSE, requests |-> GoodTable]}

(* DataCleanup (src/src/data_cleanup.py): one instance, shared by the      *)
(* threads that call start_cleanup_scheduler and stop_cleanup_scheduler.   *)
(* A Thread object is "free" before it is made, "new" once made, then at   *)
(* a place of _cleanup_loop ("loop": the test of the while; "sweep":       *)
(* cleanup_old_files; "sleep": the ten minutes between sweeps; "error":    *)
(* the minute after an exception), and "dead" when the loop has returned.  *)

\* the threads that call the scheduler: two sessions of the dashboard
Callers == {"a", "b"}

\* the Thread objects the instance can make
Threads == 1..MaxThreads

Thread_is_alive(state) == state \in {"loop", "sweep", "sleep", "error"}

\* _detect_environment
Environments == {"streamlit_cloud", "docker", "local"}

Drivers == 1..MaxScrapes

NoLog ==
  [tried |-> <<>>, got |-> "none", error |-> FALSE, selenium_rows |-> 0,
   requests_rows |-> 0, valid_rows |-> 0, sample |-> FALSE,
   rows |-> 0, source |-> <<>>, marked |-> FALSE]

\* The process before any scrape: the environment not yet detected, the
\* entry of st.cache_resource for _create_streamlit_driver empty (0), no
\* Chrome driver made, nothing loaded.
NoDrivers ==
  [env |-> "none", cache |-> 0, drivers |-> [d \in Drivers |-> "free"],
   log |-> NoLog]

\* what a run of the script showed: the page, whether a page function
\* ran, what came of it, and the pages of the data table
NoShow ==
  [page |-> "none", analysis |-> FALSE, status |-> "none",
   matching |-> 0, total_pages |-> 0]

\* the widgets of the data preview page with nothing chosen: every
\* category, no search term, newest first
DefaultWidgets ==
  [category |-> <<"A","l","l">>, search |-> <<>>, sort |-> "date", ascending |-> FALSE]

\* st.session_state of a new session, main.py lines 62-64: df is None (the
\* empty sequence; a table df is <<df>>) and preview_page is absent (0).
\* widgets are the keyed widgets of the data preview page, which Streamlit
\* forgets in a run that does not draw them.  origin tells, for the
\* properties, where the ledger held came from.
NoSession ==
  [data_loaded |-> FALSE, df |-> <<>>, preview_page |-> 0,
   widgets |-> DefaultWidgets, origin |-> "none", shown |-> NoShow]

\* DataCleanup.__init__, with no call under way
NoScheduler ==
  [running |-> FALSE,
   cleanup_thread |-> 0,
   threads |-> [t \in Threads |-> "free"],
   at |-> [c \in Callers |-> "idle"],
   last |-> "none"]

(* State: the call last made (its name, its argument as it was passed: a   *)
(* Series of descriptions or a DataFrame, and what it did), the objects    *)
(* as they are after it, and the object the analyzer's self.df refers to.  *)
(* The DataProcessor itself keeps nothing between calls.                   *)

VARIABLES call, arg, ret, heap, self

(* The dashboard around them: the Streamlit session (the stored ledger and *)
(* its flags, and what the last run of the script showed), the browser     *)
(* drivers of the Notion scraper, and the threads of the cleanup           *)
(* scheduler.                                                              *)

VARIABLES session, web, cleanup

vars == <<call, arg, ret, heap, self, session, web, cleanup>>

\* the calls of the processor, the analyzer and the insight rules
core == <<call, arg, ret, heap, self>>

SeriesArg(series) == [series |-> series, df |-> NoFrame]

FrameArg(df) == [series |-> <<>>, df |-> df]

\* the objects when the caller holds the table df and nothing else exists
Holding(df) == [NoObjects EXCEPT !["caller"] = df]

Init ==
  /\ call = "none"
  /\ arg = FrameArg(NoFrame)
  /\ ret = NothingYet
  /\ heap = NoObjects
  /\ self = "none"
  /\ session = NoSession
  /\ web = NoDrivers
  /\ cleanup = NoScheduler

\* processor = DataProcessor(): every load starts from a fresh processor
NewProcessor ==
  /\ call # "none"
  /\ call' = "none"
  /\ arg' = FrameArg(NoFrame)
  /\ ret' = NothingYet
  /\ heap' = NoObjects
  /\ self' = "none"
  /\ UNCHANGED <<session, web, cleanup>>

\* processor.auto_categorize(descriptions)
AutoCategorize ==
  /\ call = "none"
  /\ \E descriptions \in SeqsUpTo(Descriptions, MaxBatch) :
        /\ call' = "auto_categorize"
        /\ arg' = SeriesArg(descriptions)
        /\ ret' = ReturnedLabels(auto_categorize(descriptions))
  /\ UNCHANGED <<heap, self>>
  /\ UNCHANGED <<session, web, cleanup>>

\* processor.process_dataframe(df) on a raw table
ProcessDataframe ==
  /\ call = "none"
  /\ \E df \in RawTables :
        \E result \in process_dataframe(df) :
           /\ call' = "process_dataframe"
           /\ arg' = FrameArg(df)
           /\ ret' = result
           /\ heap' = process_dataframe_heap(Holding(df))
  /\ UNCHANGED self
  /\ UNCHANGED <<session, web, cleanup>>

\* processor.process_dataframe(ledger) on the ledger the last call returned
Reprocess ==
  /\ call = "process_dataframe"
  /\ ret.status = "returned"
  /\ \E result \in process_dataframe(ret.df) :
        /\ call' = "reprocess"
        /\ arg' = FrameArg(ret.df)
        /\ ret' = result
        /\ heap' = process_dataframe_heap(Holding(ret.df))
  /\ UNCHANGED self
  /\ UNCHANGED <<session, web, cleanup>>

\* processor.validate_data_quality(ledger) on the ledger the last call
\* returned
ValidateDataQuality ==
  /\ call = "process_dataframe"
  /\ ret.status = "returned"
  /\ Len(ret.df.rows) >= 1
  /\ Distinct(ret.df.columns)
  /\ \E report \in validate_data_quality(ret.df) :
        /\ call' = "validate_data_quality"
        /\ arg' = FrameArg(ret.df)
        /\ ret' = report
        /\ heap' = validate_data_quality_heap(Holding(ret.df))
  /\ UNCHANGED self
  /\ UNCHANGED <<session, web, cleanup>>

\* analyzer = BillAnalyzer(df) on a ledger
BillAnalyzer ==
  /\ call = "none"
  /\ \E df \in Ledgers :
        /\ call' = "BillAnalyzer"
        /\ arg' = FrameArg(df)
        /\ ret' = NothingYet
        /\ heap' = BillAnalyzer_heap(Holding(df))
        /\ self' = BillAnalyzer_self
  /\ UNCHANGED <<session, web, cleanup>>

\* an analyzer is there for the next query.  The queries that only read
\* leave it as they found it, so runs go on from the constructor and from
\* the queries that write self.df.
Ready ==
  /\ self # "none"
  /\ call \in {"BillAnalyzer", "get_seasonal_analysis", "detect_anomalies"}

\* analyzer.get_monthly_spending()
GetMonthlySpending ==
  /\ Ready
  /\ \E result \in get_monthly_spending(heap[self]) :
        /\ call' = "get_monthly_spending"
        /\ arg' = FrameArg(NoFrame)
        /\ ret' = result
  /\ UNCHANGED <<heap, self>>
  /\ UNCHANGED <<session, web, cleanup>>

\* analyzer.get_category_summary()
GetCategorySummary ==
  /\ Ready
  /\ \E result \in get_category_summary(heap[self]) :
        /\ call' = "get_category_summary"
        /\ arg' = FrameArg(NoFrame)
        /\ ret' = result
  /\ UNCHANGED <<heap, self>>
  /\ UNCHANGED <<session, web, cleanup>>

\* analyzer.get_weekly_patterns()
GetWeeklyPatterns ==
  /\ Ready
  /\ \E result \in get_weekly_patterns(heap, self, FALSE) :
        /\ call' = "get_weekly_patterns"
        /\ arg' = FrameArg(NoFrame)
        /\ ret' = result
  /\ heap' = get_weekly_patterns_heap(heap, FALSE)
  /\ UNCHANGED self
  /\ UNCHANGED <<session, web, cleanup>>

\* the rows of a table with one of the selected categories
Filtered(df, selected) ==
  TakeRows(df, Ascending({i \in 1..Len(df.rows) :
                            GetColumn(df, T_category)[i] \in selected}))

\* analyzer.get_weekly_patterns(filtered_df) on the rows of the caller's
\* ledger that have one of the selected categories
GetWeeklyPatternsOf ==
  /\ Ready
  /\ \E selected \in SUBSET Range(GetColumn(heap["caller"], T_category)) :
        LET filtered_df == Filtered(heap["caller"], selected)
            passed == [heap EXCEPT !["passed"] = filtered_df]
        IN  /\ filtered_df.rows # <<>>
            /\ \E result \in get_weekly_patterns(passed, self, TRUE) :
                  /\ call' = "get_weekly_patterns"
                  /\ arg' = FrameArg(filtered_df)
                  /\ ret' = result
            /\ heap' = get_weekly_patterns_heap(passed, TRUE)
  /\ UNCHANGED self
  /\ UNCHANGED <<session, web, cleanup>>

\* analyzer.get_seasonal_analysis()
GetSeasonalAnalysis ==
  /\ Ready
  /\ \E result \in get_seasonal_analysis(heap[self]) :
        /\ call' = "get_seasonal_analysis"
        /\ arg' = FrameArg(NoFrame)
        /\ ret' = result
  /\ heap' = get_seasonal_analysis_heap(heap, self)
  /\ UNCHANGED self
  /\ UNCHANGED <<session, web, cleanup>>

\* analyzer.get_yearly_comparison()
GetYearlyComparison ==
  /\ Ready
  /\ \E result \in get_yearly_comparison(heap[self]) :
        /\ call' = "get_yearly_comparison"
        /\ arg' = FrameArg(NoFrame)
        /\ ret' = result
  /\ UNCHANGED <<heap, self>>
  /\ UNCHANGED <<session, web, cleanup>>

\* analyzer.calculate_growth_rates()
CalculateGrowthRates ==
  /\ Ready
  /\ \E result \in calculate_growth_rates(heap[self]) :
        /\ call' = "calculate_growth_rates"
        /\ arg' = FrameArg(NoFrame)
        /\ ret' = result
  /\ UNCHANGED <<heap, self>>
  /\ UNCHANGED <<session, web, cleanup>>

\* analyzer.detect_anomalies()
DetectAnomalies ==
  /\ Ready
  /\ \E result \in detect_anomalies(heap[self]) :
        /\ call' = "detect_anomalies"
        /\ arg' = FrameArg(NoFrame)
        /\ ret' = result
  /\ heap' = detect_anomalies_heap(heap, self)
  /\ UNCHANGED self
  /\ UNCHANGED <<session, web, cleanup>>

\* the categories of the ledger the caller holds, without the missing ones,
\* sorted: all_categories
all_categories ==
  SortedKeys({c \in Range(GetColumn(heap["caller"], T_category)) : ~isna(c)})

\* tab "Advanced Metrics": analyzer.calculate_category_metrics for a choice of
\* categories and a range of dates between the first and the last date of the
\* ledger, on the analyzer the page has just built.  The argument is kept as
\* start, end and the chosen categories.
CalculateCategoryMetrics ==
  /\ self # "none"
  /\ call = "BillAnalyzer"
  /\ \E selected_cats_advanced \in SUBSET Range(all_categories) :
        \E start_dt, end_dt \in Range(GetColumn(heap["caller"], T_date)) :
           /\ selected_cats_advanced # {}
           /\ start_dt.n <= end_dt.n
           /\ \E result \in calculate_category_metrics(
                              heap[self], selected_cats_advanced, <<start_dt, end_dt>>) :
                 /\ call' = "calculate_category_metrics"
                 /\ arg' = SeriesArg(<<start_dt, end_dt>>
                                       \o SortedKeys(selected_cats_advanced))
                 /\ ret' = result
  /\ UNCHANGED <<heap, self>>
  /\ UNCHANGED <<session, web, cleanup>>

\* tab "Predictions": analyzer.get_category_predictions for one category of
\* the ledger and a number of months, on the analyzer the page has just
\* built.  The argument is kept as the category and the number.
GetCategoryPredictions ==
  /\ self # "none"
  /\ call = "BillAnalyzer"
  /\ \E prediction_category \in Range(all_categories) :
        \E months_ahead \in MonthsAhead :
           \E result \in get_category_predictions(
                           heap[self], prediction_category, months_ahead) :
              /\ call' = "get_category_predictions"
              /\ arg' = SeriesArg(<<prediction_category, Count(months_ahead)>>)
              /\ ret' = result
  /\ UNCHANGED <<heap, self>>
  /\ UNCHANGED <<session, web, cleanup>>

\* tab "Period Comparison": analyzer.compare_category_periods for one category
\* of the ledger, a first period between two dates of the ledger and the
\* whole ledger as second period, on the analyzer the page has just built.
\* The argument is kept as the category and the four dates.
CompareCategoryPeriods ==
  /\ self # "none"
  /\ call = "BillAnalyzer"
  /\ \E comparison_category \in Range(all_categories) :
        \E start1, end1 \in Range(GetColumn(heap["caller"], T_date)) :
           LET dates == GetColumn(heap["caller"], T_date)
               period1_dt == <<start1, end1>>
               period2_dt == <<dates[1], dates[Len(dates)]>>
           IN  /\ start1.n <= end1.n
               /\ \E result \in compare_category_periods(
                                  heap[self], comparison_category, period1_dt, period2_dt) :
                     /\ call' = "compare_category_periods"
                     /\ arg' = SeriesArg(<<comparison_category>> \o period1_dt \o period2_dt)
                     /\ ret' = result
  /\ UNCHANGED <<heap, self>>
  /\ UNCHANGED <<session, web, cleanup>>

\* analyzer.generate_report(report_type)
GenerateReport ==
  /\ Ready
  /\ \E report_type \in ReportTypes :
        \E result \in generate_report(heap[self], report_type) :
           /\ call' = "generate_report"
           /\ arg' = [FrameArg(NoFrame) EXCEPT !.series = <<report_type>>]
           /\ ret' = result
  /\ UNCHANGED <<heap, self>>
  /\ UNCHANGED <<session, web, cleanup>>

\* the ledgers show_insights can find in the session: those of the analyzer,
\* one whose only row has no category, and the one with no rows that an
\* upload leaves when none of its rows has a date
InsightLedgers ==
  Ledgers
  \cup {Table(LedgerLayout, <<LedgerRow(Ts(20240311), Num(1000), NaN)>>),
        Table(LedgerLayout, <<>>)}

InsightsGenerator_self == copy("caller", "self_df")

InsightsGenerator_heap(objects) ==
  LET copied == Copied(objects, "caller", "self_df")
  IN  [copied EXCEPT ![InsightsGenerator_self] =
         InsightsGenerator_df(copied[InsightsGenerator_self])]

\* InsightsGenerator(df)
InsightsGenerator ==
  /\ call = "none"
  /\ \E df \in InsightLedgers :
        /\ call' = "InsightsGenerator"
        /\ arg' = FrameArg(df)
        /\ ret' = NothingYet
        /\ heap' = InsightsGenerator_heap(Holding(df))
        /\ self' = InsightsGenerator_self
  /\ UNCHANGED <<session, web, cleanup>>

GenerateAllInsights ==
  /\ call = "InsightsGenerator"
  /\ \E result \in generate_all_insights(heap[self]) :
        /\ call' = "generate_all_insights"
        /\ arg' = FrameArg(NoFrame)
        /\ ret' = result
  /\ UNCHANGED <<heap, self>>
  /\ UNCHANGED <<session, web, cleanup>>

AnalyzeSpendingPatterns ==
  /\ call = "InsightsGenerator"
  /\ \E result \in analyze_spending_patterns(heap[self]) :
        /\ call' = "analyze_spending_patterns"
        /\ arg' = FrameArg(NoFrame)
        /\ ret' = result
  /\ UNCHANGED <<heap, self>>
  /\ UNCHANGED <<session, web, cleanup>>

AnalyzeCategoryBehavior ==
  /\ call = "InsightsGenerator"
  /\ \E result \in analyze_category_behavior(heap[self]) :
        /\ call' = "analyze_category_behavior"
        /\ arg' = FrameArg(NoFrame)
        /\ ret' = result
  /\ UNCHANGED <<heap, self>>
  /\ UNCHANGED <<session, web, cleanup>>

AnalyzeTemporalPatterns ==
  /\ call = "InsightsGenerator"
  /\ \E result \in analyze_temporal_patterns(heap[self]) :
        /\ call' = "analyze_temporal_patterns"
        /\ arg' = FrameArg(NoFrame)
        /\ ret' = result
  /\ UNCHANGED <<heap, self>>
  /\ UNCHANGED <<session, web, cleanup>>

DetectUnusualBehavior ==
  /\ call = "InsightsGenerator"
  /\ \E result \in detect_unusual_behavior(heap[self]) :
        /\ call' = "detect_unusual_behavior"
        /\ arg' = FrameArg(NoFrame)
        /\ ret' = result
  /\ UNCHANGED <<heap, self>>
  /\ UNCHANGED <<session, web, cleanup>>

IdentifySavingsOpportunities ==
  /\ call = "InsightsGenerator"
  /\ \E result \in identify_savings_opportunities(heap[self]) :
        /\ call' = "identify_savings_opportunities"
        /\ arg' = FrameArg(NoFrame)
        /\ ret' = result
  /\ UNCHANGED <<heap, self>>
  /\ UNCHANGED <<session, web, cleanup>>

AssessFinancialHealth ==
  /\ call = "InsightsGenerator"
  /\ \E result \in assess_financial_health(heap[self]) :
        /\ call' = "assess_financial_health"
        /\ arg' = FrameArg(NoFrame)
        /\ ret' = result
  /\ UNCHANGED <<heap, self>>
  /\ UNCHANGED <<session, web, cleanup>>

Next ==
  \/ NewProcessor
  \/ AutoCategorize
  \/ ProcessDataframe
  \/ Reprocess
  \/ ValidateDataQuality
  \/ BillAnalyzer
  \/ GetMonthlySpending
  \/ GetCategorySummary
  \/ GetWeeklyPatterns
  \/ GetWeeklyPatternsOf
  \/ GetSeasonalAnalysis
  \/ GetYearlyComparison
  \/ CalculateGrowthRates
  \/ DetectAnomalies
  \/ GenerateReport
  \/ CalculateCategoryMetrics
  \/ GetCategoryPredictions
  \/ CompareCategoryPeriods
  \/ InsightsGenerator
  \/ GenerateAllInsights
  \/ AnalyzeSpendingPatterns
  \/ AnalyzeCategoryBehavior
  \/ AnalyzeTemporalPatterns
  \/ DetectUnusualBehavior
  \/ IdentifySavingsOpportunities
  \/ AssessFinancialHealth

Spec == Init /\ [][Next]_vars

\* What a page gives: the table Selenium extracts from it (or an exception
\* while extracting) and the table the requests method extracts, NoFrame
\* when it finds nothing or fails.  live tells whether driver.get(url) ran
\* on a driver that was set up and not quit.
_scrape_with_selenium(page, live) ==
  IF live /\ ~page.raises THEN page.selenium ELSE NoFrame

_scrape_with_requests(page) == page.requests

\* lines 281-289: the requests method after an empty answer of Selenium
ScrapedAfter(page, by_selenium) ==
  IF empty(by_selenium) THEN _scrape_with_requests(page) ELSE by_selenium

\* lines 286-294
ProcessedOrFallback(scraped) ==
  _process_scraped_data(IF empty(scraped) THEN _create_fallback_data ELSE scraped)

\* NotionScraper.scrape_notion_page
scrape_notion_page(page, live) ==
  ProcessedOrFallback(ScrapedAfter(page, _scrape_with_selenium(page, live)))

\* what process_dataframe does with the table the scraper returned; it is
\* not called on an empty one
Processed(df) ==
  IF empty(df) THEN {Returned(NoFrame, <<>>)} ELSE process_dataframe(df)

\* NotionDataExtractor.extract_bill_data, after process_dataframe did r
Extracted(r) == IF r.status = "raised" THEN NoFrame ELSE r.df

\* NotionDataExtractor.extract_bill_data: the tables it may return
extract_bill_data(page, live) ==
  {Extracted(r) : r \in Processed(scrape_notion_page(page, live))}

\* df['_is_sample_data'].iloc[0] of a table with rows
MarkedSample(df) ==
  /\ HasColumn(df.columns, T_is_sample_data)
  /\ GetColumn(df, T_is_sample_data)[1] = True

\* the same without the sample data for an empty answer of the extractor
Loaded_empty_kept(df) ==
  IF ~empty(df) /\ MarkedSample(df) THEN df
  ELSE Assign(df, T_data_source, Str(<<"n","o","t","i","o","n">>))

\* DataProcessor.load_from_notion_url, after the extractor returned df
Loaded(df) ==
  IF empty(df)
  THEN Assign(create_sample_data(SampleRows), T_data_source, Str(<<"s","a","m","p","l","e">>))
  ELSE IF MarkedSample(df) THEN df
  ELSE Assign(df, T_data_source, Str(<<"n","o","t","i","o","n">>))

\* DataProcessor.load_from_notion_url: the tables it may return
load_from_notion_url(page, live) ==
  {Loaded(df) : df \in extract_bill_data(page, live)}

\* What one load did, for the properties: the methods tried in order, the
\* state of the driver when driver.get(url) ran on it ("none" when no
\* driver was set up), whether an except clause was entered, the rows each
\* method produced, the scraped rows left after cleaning and normalization,
\* whether the table returned is made of sample data, and that table.
\* The process keeps of the table its number of rows, its _data_source and
\* whether its _is_sample_data is set.
LoadLogOf(page, got, by_selenium, scraped, results) ==
  {[tried |-> <<"selenium">>
                \o (IF empty(by_selenium) THEN <<"requests">> ELSE <<>>)
                \o (IF empty(scraped) \/ empty(Extracted(r))
                    THEN <<"sample">> ELSE <<>>),
    got |-> got,
    error |-> \/ got # "live"
              \/ page.raises
              \/ ~empty(scraped) /\ CleanTried(_standardize_columns(scraped)).raised
              \/ r.status = "raised",
    selenium_rows |-> Len(by_selenium.rows),
    requests_rows |-> IF empty(by_selenium) THEN Len(page.requests.rows) ELSE 0,
    valid_rows |-> IF empty(scraped) THEN 0 ELSE Len(Extracted(r).rows),
    sample |-> empty(scraped) \/ empty(Extracted(r)),
    df |-> Loaded(Extracted(r))] : r \in results}

LoadLogAfter(page, got, by_selenium, scraped) ==
  LoadLogOf(page, got, by_selenium, scraped, Processed(ProcessedOrFallback(scraped)))

LoadLogFrom(page, got, by_selenium) ==
  LoadLogAfter(page, got, by_selenium, ScrapedAfter(page, by_selenium))

LoadLog(page, got) ==
  LoadLogFrom(page, got, _scrape_with_selenium(page, got = "live"))

Logged(load) ==
  [tried |-> load.tried, got |-> load.got, error |-> load.error,
   selenium_rows |-> load.selenium_rows, requests_rows |-> load.requests_rows,
   valid_rows |-> load.valid_rows, sample |-> load.sample,
   rows |-> Len(load.df.rows),
   source |-> IF HasColumn(load.df.columns, T_data_source) /\ load.df.rows # <<>>
              THEN GetColumn(load.df, T_data_source)[1].s ELSE <<>>,
   marked |-> ~empty(load.df) /\ MarkedSample(load.df)]

GotStates == {"none", "live", "quit"}

\* the loads of every page, worked out once
Loads == [page \in Pages, got \in GotStates |-> LoadLog(page, got)]

----------------------------------------------------------------------------
(* The cleanup scheduler.  A call is a sequence of steps of its caller,    *)
(* one for each statement that reads or writes the instance; the steps of  *)
(* two callers and of the loop threads interleave in any order.            *)

\* the instance once caller c has returned from the named call
Returned_from(sched, c, name) ==
  [sched EXCEPT !.at[c] = "idle", !.last = name]

\* start_cleanup_scheduler, lines 26-28: the test of the thread kept
StartCheck(c) ==
  /\ cleanup.at[c] = "idle"
  /\ cleanup' =
       IF /\ cleanup.cleanup_thread # 0
          /\ Thread_is_alive(cleanup.threads[cleanup.cleanup_thread])
       THEN Returned_from(cleanup, c, "start")
       ELSE [cleanup EXCEPT !.at[c] = "start:30"]
  /\ UNCHANGED <<core, session, web>>

\* line 30
StartSetRunning(c) ==
  /\ cleanup.at[c] = "start:30"
  /\ cleanup' = [cleanup EXCEPT !.running = TRUE, !.at[c] = "start:31"]
  /\ UNCHANGED <<core, session, web>>

\* line 31: a new Thread object, kept in self.cleanup_thread
StartNewThread(c) ==
  /\ cleanup.at[c] = "start:31"
  /\ \E t \in Threads :
        /\ cleanup.threads[t] = "free"
        /\ \A u \in 1..(t - 1) : cleanup.threads[u] # "free"
        /\ cleanup' = [cleanup EXCEPT !.threads[t] = "new",
                                      !.cleanup_thread = t,
                                      !.at[c] = "start:32"]
  /\ UNCHANGED <<core, session, web>>

\* line 32: self.cleanup_thread.start(), on the thread kept now; start() of
\* a thread that was started raises RuntimeError and the call ends
StartThread(c) ==
  /\ cleanup.at[c] = "start:32"
  /\ LET t == cleanup.cleanup_thread
     IN  cleanup' =
           IF cleanup.threads[t] = "new"
           THEN Returned_from([cleanup EXCEPT !.threads[t] = "loop"], c, "start")
           ELSE Returned_from(cleanup, c, "start")
  /\ UNCHANGED <<core, session, web>>

\* stop_cleanup_scheduler, line 37
StopClearRunning(c) ==
  /\ cleanup.at[c] = "idle"
  /\ cleanup' = [cleanup EXCEPT !.running = FALSE, !.at[c] = "stop:38"]
  /\ UNCHANGED <<core, session, web>>

\* lines 38-40: join(timeout=5) returns when the thread has ended or when
\* the five seconds are over, whichever comes first
StopJoin(c) ==
  /\ cleanup.at[c] = "stop:38"
  /\ cleanup' = Returned_from(cleanup, c, "stop")
  /\ UNCHANGED <<core, session, web>>

\* _cleanup_loop, line 44: the test of the while
LoopTest(t) ==
  /\ cleanup.threads[t] = "loop"
  /\ cleanup' = [cleanup EXCEPT !.threads[t] =
                    IF cleanup.running THEN "sweep" ELSE "dead"]
  /\ UNCHANGED <<core, session, web>>

\* lines 45-46 and 52-53: cleanup_old_files returns, or raises
Sweep(t) ==
  /\ cleanup.threads[t] = "sweep"
  /\ \E next \in {"sleep", "error"} :
        cleanup' = [cleanup EXCEPT !.threads[t] = next]
  /\ UNCHANGED <<core, session, web>>

\* lines 48-51: ten minutes of one-second sleeps, left early when running
\* is found false
Sleep(t) ==
  /\ cleanup.threads[t] = "sleep"
  /\ cleanup' = [cleanup EXCEPT !.threads[t] = "loop"]
  /\ UNCHANGED <<core, session, web>>

\* line 54: time.sleep(60)
ErrorSleep(t) ==
  /\ cleanup.threads[t] = "error"
  /\ cleanup' = [cleanup EXCEPT !.threads[t] = "loop"]
  /\ UNCHANGED <<core, session, web>>

\* a new DataCleanup, once every call has returned and every thread ended
NewCleanup ==
  /\ cleanup # NoScheduler
  /\ \A c \in Callers : cleanup.at[c] = "idle"
  /\ \A t \in Threads : ~Thread_is_alive(cleanup.threads[t])
  /\ cleanup' = NoScheduler
  /\ UNCHANGED <<core, session, web>>

NextCleanup ==
  \/ \E c \in Callers : StartCheck(c)
  \/ \E c \in Callers : StartSetRunning(c)
  \/ \E c \in Callers : StartNewThread(c)
  \/ \E c \in Callers : StartThread(c)
  \/ \E c \in Callers : StopClearRunning(c)
  \/ \E c \in Callers : StopJoin(c)
  \/ \E t \in Threads : LoopTest(t)
  \/ \E t \in Threads : Sweep(t)
  \/ \E t \in Threads : Sleep(t)
  \/ \E t \in Threads : ErrorSleep(t)
  \/ NewCleanup

SpecCleanup == Init /\ [][NextCleanup]_vars

\* the same with the scheduling Python gives: a call under way runs to its
\* return and a loop thread that can take a step takes it; nothing makes a
\* caller begin a call
FairCleanup ==
  /\ SpecCleanup
  /\ \A c \in Callers :
        WF_vars(StartSetRunning(c) \/ StartNewThread(c) \/ StartThread(c) \/ StopJoin(c))
  /\ \A t \in Threads :
        WF_vars(LoopTest(t) \/ Sweep(t) \/ Sleep(t) \/ ErrorSleep(t))

----------------------------------------------------------------------------
(* The Streamlit session (src/main.py).  One step is one run of the script *)
(* to its end, a rerun it asks for included: the page chosen in the        *)
(* sidebar, the widgets as the user left them, at most one button pressed. *)

AnalysisPages ==
  {"Overview", "Spending Analysis", "Category Analysis", "Category Calculator",
   "Trends", "Insights", "Export Reports"}

Show(page, analysis, status) ==
  [NoShow EXCEPT !.page = page, !.analysis = analysis, !.status = status]

\* main.py line 96: the warning shown in place of a page
UploadPrompt(page) == Show(page, FALSE, "prompt")

\* lines 213-218: the marker columns dropped from a copy
Unmarked(df) ==
  TakeColumns(df, Ascending({j \in 1..Len(df.columns) :
                 df.columns[j] \notin {T_data_source, T_is_sample_data}}))

\* lines 182-208: which message tells where the data came from
SourceMessage(df) ==
  LET data_source == IF HasColumn(df.columns, T_data_source)
                     THEN GetColumn(df, T_data_source)[1].s ELSE <<"u","n","k","n","o","w","n">>
      is_sample == MarkedSample(df)
  IN  IF data_source = <<"n","o","t","i","o","n">> /\ ~is_sample THEN "real"
      ELSE IF is_sample \/ data_source \in {<<"s","a","m","p","l","e">>, <<"s","a","m","p","l","e","_","f","a","l","l","b","a","c","k">>}
      THEN "sample"
      ELSE "source"

\* the files uploaded: two transactions out of date order, one with a blank
\* description, one whose amount does not read as a number, and a file
\* without an amount column
UploadRow(date, amount, description) == <<Str(date), Str(amount), description>>

Starbucks == Str(<<"S","t","a","r","b","u","c","k","s"," ","C","o","f","f","e","e">>)

Uploads ==
  {Table(<<<<"D","a","t","e">>, <<"A","m","o","u","n","t">>, <<"D","e","s","c","r","i","p","t","i","o","n">>>>,
         <<UploadRow(<<"2","0","2","4","-","0","1","-","0","6">>, <<"1","2",".","5","0">>, Starbucks),
           UploadRow(<<"2","0","2","4","-","0","1","-","0","5">>, <<"-","4","0",".","0","0">>, Starbucks)>>),
   Table(<<<<"D","a","t","e">>, <<"A","m","o","u","n","t">>, <<"D","e","s","c","r","i","p","t","i","o","n">>>>,
         <<UploadRow(<<"2","0","2","4","-","0","1","-","0","5">>, <<"1","2",".","5","0">>, Str(<<" "," "," ">>))>>),
   Table(<<<<"D","a","t","e">>, <<"A","m","o","u","n","t">>, <<"D","e","s","c","r","i","p","t","i","o","n">>>>,
         <<UploadRow(<<"2","0","2","4","-","0","1","-","0","5">>, <<"a","b","c">>, Starbucks)>>),
   Table(<<<<"D","a","t","e">>, <<"D","e","s","c","r","i","p","t","i","o","n">>>>,
         <<<<Str(<<"2","0","2","4","-","0","1","-","0","5">>), Starbucks>>>>)}

\* the ledgers of the uploads, worked out once
Processings == [raw \in Uploads |-> process_dataframe(raw)]

\* show_data_upload, "Upload File", lines 113-137: the ledger is stored
\* after load_data and the preview returned; an exception shows an error
UploadFile(raw) ==
  /\ \E r \in Processings[raw] :
        session' =
          IF r.status = "raised"
          THEN [session EXCEPT !.widgets = DefaultWidgets,
                               !.shown = Show("Data Upload", FALSE, "error")]
          ELSE [session EXCEPT !.df = <<r.df>>,
                               !.data_loaded = TRUE,
                               !.origin = "upload",
                               !.widgets = DefaultWidgets,
                               !.shown = Show("Data Upload", FALSE, "loaded")]
  /\ UNCHANGED <<core, web, cleanup>>

\* show_data_upload, "Scrape Data from Notion", lines 141-240, for a URL
\* entered.  env is the environment of the process, page what the URL
\* gives, created whether a new Chrome driver can be made.  setup_driver
\* takes the Streamlit Cloud driver from the resource cache when it holds
\* one; _scrape_with_selenium quits the driver on both of its ways out, and
\* close() quits it once more, which does nothing to a driver quit before.
ScrapeDataFromNotion(env, page, created) ==
  /\ web.env \in {"none", env}
  /\ LET cached == env = "streamlit_cloud" /\ web.cache # 0
         free == {d \in Drivers : web.drivers[d] = "free"}
         made == CHOOSE d \in free : \A other \in free : d <= other
         driver == IF cached THEN web.cache ELSE IF created THEN made ELSE 0
         got == IF driver = 0 THEN "none"
                ELSE IF cached THEN web.drivers[driver] ELSE "live"
     IN  /\ cached \/ ~created \/ free # {}
         /\ \E log \in Loads[page, got] :
              /\ web' = [env |-> env,
                         cache |-> IF env = "streamlit_cloud" /\ ~cached /\ created
                                   THEN made ELSE web.cache,
                         drivers |-> IF driver = 0 THEN web.drivers
                                     ELSE [web.drivers EXCEPT ![driver] = "quit"],
                         log |-> Logged(log)]
              /\ session' =
                   IF empty(log.df)
                   THEN [session EXCEPT !.widgets = DefaultWidgets,
                                        !.shown = Show("Data Upload", FALSE, "nothing")]
                   ELSE [session EXCEPT
                           !.df = <<Unmarked(log.df)>>,
                           !.data_loaded = TRUE,
                           !.origin = "notion",
                           !.widgets = DefaultWidgets,
                           !.shown = Show("Data Upload", FALSE, SourceMessage(log.df))]
  /\ UNCHANGED <<core, cleanup>>

\* show_data_upload, "Load Sample Data", lines 304-310
LoadSampleData ==
  /\ session' = [session EXCEPT !.df = <<create_sample_data(SampleRows)>>,
                                !.data_loaded = TRUE,
                                !.origin = "sample",
                                !.widgets = DefaultWidgets,
                                !.shown = Show("Data Upload", FALSE, "loaded")]
  /\ UNCHANGED <<core, web, cleanup>>

\* main, lines 76-98, for a page other than the upload page and the data
\* preview: its function runs only on loaded data
ShowPage(page) ==
  /\ session' = [session EXCEPT
                   !.widgets = DefaultWidgets,
                   !.shown = IF session.data_loaded THEN Show(page, TRUE, "ran")
                             ELSE UploadPrompt(page)]
  /\ UNCHANGED <<core, web, cleanup>>

records_per_page == 20

\* the choices of the widgets tried: a category, a search term, the column
\* sorted by and the order (the sort orders the table drawn and nothing
\* kept).  The date and amount ranges stay as they are first drawn, over
\* the whole ledger, where they keep every row.
PreviewCategories == {<<"A","l","l">>, <<"F","o","o","d">>, <<"G","r","o","c","e","r","y">>}

SearchTerms == {<<>>, <<"b","e","e","r">>, <<"z","z","z">>}

WidgetChoices ==
  {[category |-> c, search |-> t, sort |-> by, ascending |-> a] :
     c \in PreviewCategories, t \in SearchTerms,
     by \in {"date", "amount"}, a \in BOOLEAN}

\* lines 1133-1158: the rows of the chosen category whose description
\* contains the search term, whatever the case
PreviewFiltered(df, w) ==
  TakeRows(df, Ascending({i \in 1..Len(df.rows) :
     /\ w.category = <<"A","l","l">> \/ GetColumn(df, T_category)[i] = Str(w.category)
     /\ \/ w.search = <<>>
        \/ /\ ~isna(GetColumn(df, T_description)[i])
           /\ Contains(Lower(w.search), GetColumn(df, T_description)[i].s)}))

\* line 1191
TotalPages(total_records) ==
  IF total_records > 0 THEN (total_records - 1) \div records_per_page + 1 ELSE 1

\* st.session_state.get('preview_page', 1)
PageOr1(preview_page) == IF preview_page = 0 THEN 1 ELSE preview_page

Pressed(button, page) == [button |-> button, page |-> page]

\* lines 1192-1236, one run over a table with rows: the page number it
\* leaves and how it ends.  First and Prev are handled before the page
\* selector is drawn, Next and Last after it; st.selectbox raises when its
\* index is no place of its options.  pressed names a button, "Page" with
\* the page chosen in the selector, or "none".
Paginate(preview_page, total_pages, pressed) ==
  LET page == PageOr1(preview_page)
  IN  IF pressed.button = "First" THEN [preview_page |-> 1, ends |-> "rerun"]
      ELSE IF pressed.button = "Prev"
      THEN [preview_page |-> IF page - 1 > 1 THEN page - 1 ELSE 1, ends |-> "rerun"]
      ELSE IF page - 1 \notin 0..(total_pages - 1)
      THEN [preview_page |-> page, ends |-> "raised"]
      ELSE IF pressed.button = "Page" /\ pressed.page # page
      THEN [preview_page |-> pressed.page, ends |-> "rerun"]
      ELSE IF pressed.button = "Next"
      THEN [preview_page |-> IF page + 1 < total_pages THEN page + 1 ELSE total_pages,
            ends |-> "rerun"]
      ELSE IF pressed.button = "Last"
      THEN [preview_page |-> total_pages, ends |-> "rerun"]
      ELSE [preview_page |-> page, ends |-> "shown"]

\* show_data_preview_page as main calls it, lines 77-78 and 1063-1275, the
\* rerun after a button included.  On a ledger without rows the amount
\* slider gets no range and the page raises.
show_data_preview_page(state, w, pressed) ==
  IF ~state.data_loaded
  THEN [state EXCEPT !.widgets = DefaultWidgets,
                     !.shown = UploadPrompt("Data Preview")]
  ELSE LET df == state.df[1]
           filtered_df == PreviewFiltered(df, w)
           total_records == Len(filtered_df.rows)
           total_pages == TotalPages(total_records)
           first == Paginate(state.preview_page, total_pages, pressed)
           last == IF first.ends = "rerun"
                   THEN Paginate(first.preview_page, total_pages, Pressed("none", 0))
                   ELSE first
           drawn(status, pages) ==
             [NoShow EXCEPT !.page = "Data Preview", !.analysis = TRUE,
                            !.status = status, !.matching = total_records,
                            !.total_pages = pages]
       IN  IF df.rows = <<>>
           THEN [state EXCEPT !.widgets = w, !.shown = drawn("raised", 0)]
           ELSE IF total_records = 0
           THEN [state EXCEPT !.widgets = w, !.shown = drawn("no records", 0)]
           ELSE [state EXCEPT !.widgets = w,
                              !.preview_page = last.preview_page,
                              !.shown = drawn(last.ends, total_pages)]

\* the data preview page chosen in the sidebar, or one of its filter,
\* search or sort widgets changed
ShowDataPreviewPage(w) ==
  /\ session.data_loaded
       => /\ session.df[1].rows # <<>>
             => w.category = <<"A","l","l">>
                \/ \E i \in 1..Len(session.df[1].rows) :
                      GetColumn(session.df[1], T_category)[i] = Str(w.category)
  /\ ~session.data_loaded => w = DefaultWidgets
  /\ session' = show_data_preview_page(session, w, Pressed("none", 0))
  /\ UNCHANGED <<core, web, cleanup>>

\* the page with its table and the buttons of the last run on the screen
PreviewDrawn ==
  /\ session.shown.page = "Data Preview"
  /\ session.shown.status \in {"shown", "raised"}
  /\ session.shown.total_pages > 0

\* First or Prev pressed: they are drawn before the selector and enabled
\* past page 1
PressBack(button) ==
  /\ PreviewDrawn
  /\ PageOr1(session.preview_page) > 1
  /\ session' = show_data_preview_page(session, session.widgets, Pressed(button, 0))
  /\ UNCHANGED <<core, web, cleanup>>

\* Next or Last pressed: drawn after the selector, enabled before the last
\* page
PressForward(button) ==
  /\ PreviewDrawn
  /\ session.shown.status = "shown"
  /\ PageOr1(session.preview_page) < session.shown.total_pages
  /\ session' = show_data_preview_page(session, session.widgets, Pressed(button, 0))
  /\ UNCHANGED <<core, web, cleanup>>

\* a page chosen in the selector
SelectPage(p) ==
  /\ PreviewDrawn
  /\ session.shown.status = "shown"
  /\ p \in 1..session.shown.total_pages
  /\ session' = show_data_preview_page(session, session.widgets, Pressed("Page", p))
  /\ UNCHANGED <<core, web, cleanup>>

\* the same with the rows chosen stored as the ledger of the session
ShowSpendingAnalysis_filtered_stored(categories) ==
  /\ session' =
       IF ~session.data_loaded
       THEN [session EXCEPT !.widgets = DefaultWidgets,
                            !.shown = UploadPrompt("Spending Analysis")]
       ELSE LET df == session.df[1]
                filtered_df ==
                  TakeRows(df, Ascending({i \in 1..Len(df.rows) :
                             GetColumn(df, T_category)[i].s \in categories}))
            IN  [session EXCEPT
                   !.df = <<filtered_df>>,
                   !.widgets = DefaultWidgets,
                   !.shown = [Show("Spending Analysis", TRUE, "ran") EXCEPT
                                !.matching = Len(filtered_df.rows)]]
  /\ UNCHANGED <<core, web, cleanup>>

\* show_spending_analysis as main calls it, lines 81-82 and 484-522: the
\* rows of the categories chosen, a table of its own
ShowSpendingAnalysis(categories) ==
  /\ session' =
       IF ~session.data_loaded
       THEN [session EXCEPT !.widgets = DefaultWidgets,
                            !.shown = UploadPrompt("Spending Analysis")]
       ELSE LET df == session.df[1]
                filtered_df ==
                  TakeRows(df, Ascending({i \in 1..Len(df.rows) :
                             GetColumn(df, T_category)[i].s \in categories}))
            IN  [session EXCEPT
                   !.widgets = DefaultWidgets,
                   !.shown = [Show("Spending Analysis", TRUE, "ran") EXCEPT
                                !.matching = Len(filtered_df.rows)]]
  /\ UNCHANGED <<core, web, cleanup>>

NextApp ==
  \/ \E raw \in Uploads : UploadFile(raw)
  \/ \E env \in Environments, page \in Pages, created \in BOOLEAN :
        ScrapeDataFromNotion(env, page, created)
  \/ LoadSampleData
  \/ \E page \in AnalysisPages : ShowPage(page)
  \/ ShowDataPreviewPage(DefaultWidgets)

SpecApp == Init /\ [][NextApp]_vars

NextPreview ==
  \/ \E raw \in Uploads : UploadFile(raw)
  \/ LoadSampleData
  \/ \E w \in WidgetChoices : ShowDataPreviewPage(w)
  \/ \E button \in {"First", "Prev"} : PressBack(button)
  \/ \E button \in {"Next", "Last"} : PressForward(button)
  \/ \E p \in 1..(SampleRows \div records_per_page + 1) : SelectPage(p)
  \/ \E categories \in SUBSET {<<"F","o","o","d">>, <<"G","r","o","c","e","r","y">>} : ShowSpendingAnalysis(categories)
  \/ \E page \in AnalysisPages : ShowPage(page)

SpecPreview == Init /\ [][NextPreview]_vars

----------------------------------------------------------------------------
(* The categorizer.                                                        *)

\* the enumeration order of the rule table
CategoryOrder ==
  << <<"F","o","o","d">>,
     <<"G","r","o","c","e","r","y">>,
     <<"U","t","i","l","i","t","i","e","s">>,
     <<"B","a","n","k">>,
     <<"T","r","a","n","s","p","o","r","t","a","t","i","o","n">>,
     <<"S","h","o","p","p","i","n","g">>,
     <<"E","n","t","e","r","t","a","i","n","m","e","n","t">> >>

PatternsOf(category) ==
  LET k == CHOOSE k \in 1..Len(category_patterns) :
             category_patterns[k].category = category
  IN  category_patterns[k].patterns

\* for every description, the categories that have a pattern matching the
\* lower-cased description
Matching ==
  [cell \in Descriptions |->
     {k \in 1..Len(CategoryOrder) :
        ContainsAny(PatternsOf(CategoryOrder[k]), Lower(AsTypeStr(cell)))}]

MatchingPositions(cell) == Matching[cell]

FirstMatchingCategory(cell) ==
  LET hits == MatchingPositions(cell)
  IN  IF hits = {} THEN Other
      ELSE CategoryOrder[CHOOSE k \in hits : \A j \in hits : k <= j]

\* C1: auto_categorize labels every description with the first category, in
\* the order Food, Grocery, Utilities, Bank, Transportation, Shopping,
\* Entertainment, that has a pattern matching the lower-cased description,
\* and with "Other" when no category has one.
C1_FirstMatchWins ==
  call = "auto_categorize" =>
    /\ Len(ret.labels) = Len(arg.series)
    /\ \A i \in 1..Len(arg.series) : ret.labels[i] = FirstMatchingCategory(arg.series[i])

\* a description that two categories match got the earlier one, next to a
\* description that no category matches
C1_Witness ==
  /\ call = "auto_categorize"
  /\ \E i \in 1..Len(arg.series) :
        /\ Cardinality(MatchingPositions(arg.series[i])) >= 2
        /\ ret.labels[i] = <<"F","o","o","d">>
  /\ \E i \in 1..Len(arg.series) : MatchingPositions(arg.series[i]) = {} /\ ret.labels[i] = Other

\* C2: in a batch every element gets the label that categorizing it alone
\* gives, whatever the other elements are and whatever was called before.
C2_BatchIsElementwise ==
  call = "auto_categorize" =>
    \A i \in 1..Len(arg.series) : ret.labels[i] = auto_categorize(<<arg.series[i]>>)[1]

\* a batch of two descriptions that get different labels
C2_Witness ==
  /\ call = "auto_categorize"
  /\ Len(arg.series) >= 2
  /\ ret.labels[1] # ret.labels[2]
  /\ ret.labels[1] # Other
  /\ ret.labels[2] = Other

----------------------------------------------------------------------------
(* The normalizer.                                                         *)

ProcessCalls == {"process_dataframe", "reprocess"}

\* the column labels of the argument after lower-casing, trimming and
\* aliasing
Canonical(df) == Rename(StandardizeNames(df.columns))

RequiredNames == Range(required_columns)

\* the argument has every required column, each once
RequiredOnce(df) ==
  \A c \in RequiredNames : Cardinality(ColumnsNamed(Canonical(df), c)) = 1

\* the cell of the i-th row of the argument in its column of that canonical
\* name
RawCell(i, name) == arg.df.rows[i][ColumnOf(Canonical(arg.df), name)]

\* the cell of the j-th row of the returned ledger in that column
LedgerCell(j, name) == ret.df.rows[j][ColumnOf(ret.df.columns, name)]

SchemaError == ret.status = "raised" /\ ret.msg = "Missing required columns"

\* C3: process_dataframe raises the schema error exactly when a required
\* column is absent after lower-casing, trimming and aliasing, and the error
\* lists every absent required column.
C3_SchemaErrorListsAllMissing ==
  call \in ProcessCalls =>
    LET absent == {c \in RequiredNames : ~HasColumn(Canonical(arg.df), c)}
    IN  /\ SchemaError <=> absent # {}
        /\ SchemaError =>
             /\ Range(ret.missing) = absent
             /\ Len(ret.missing) = Cardinality(absent)

\* a table with an aliased or re-cased required column and two required
\* columns absent raised the schema error
C3_Witness ==
  /\ call = "process_dataframe"
  /\ SchemaError
  /\ Len(ret.missing) = 2
  /\ \E c \in RequiredNames :
        /\ HasColumn(Canonical(arg.df), c)
        /\ ~HasColumn(arg.df.columns, c)

\* C4: when several raw columns alias to one canonical name, process_dataframe
\* completes and the ledger has one column per canonical name.
C4_DuplicateAliasesCollapse ==
  ( /\ call = "process_dataframe"
    /\ \A c \in RequiredNames : HasColumn(Canonical(arg.df), c)
    /\ \E c \in Range(Canonical(arg.df)) :
          Cardinality(ColumnsNamed(Canonical(arg.df), c)) > 1 )
  => /\ ret.status = "returned"
     /\ \A c \in Range(ret.df.columns) :
           Cardinality(ColumnsNamed(ret.df.columns, c)) = 1

\* the rows of the argument whose date parses and whose amount is numeric
WellFormedRows ==
  {i \in 1..Len(arg.df.rows) :
     /\ to_datetime(RawCell(i, T_date)).k = "ts"
     /\ to_numeric(RawCell(i, T_amount)).k = "num"}

\* C5: given the required columns, process_dataframe returns whatever the
\* rows hold; the ledger has exactly the rows whose date parses and whose
\* amount is numeric, each once, and every ledger row has a Timestamp and a
\* number.
C5_InvalidRowsDropped ==
  (call \in ProcessCalls /\ RequiredOnce(arg.df)) =>
    /\ ret.status = "returned"
    /\ Range(ret.index) = WellFormedRows
    /\ Len(ret.index) = Cardinality(WellFormedRows)
    /\ Len(ret.df.rows) = Len(ret.index)
    /\ \A j \in 1..Len(ret.df.rows) :
          /\ LedgerCell(j, T_date).k = "ts"
          /\ LedgerCell(j, T_amount).k = "num"

\* of two raw rows, the one with a bad date or amount was dropped and the
\* other kept
C5_Witness ==
  /\ call = "process_dataframe"
  /\ ret.status = "returned"
  /\ Len(arg.df.rows) = 2
  /\ Len(ret.df.rows) = 1

AbsoluteValue(n) == IF n < 0 THEN 0 - n ELSE n

\* C6: every amount of the ledger is >= 0 and is the absolute value of the
\* parsed amount of the raw row it comes from.
C6_AmountsAbsolute ==
  (call \in ProcessCalls /\ ret.status = "returned") =>
    \A j \in 1..Len(ret.df.rows) :
       /\ LedgerCell(j, T_amount).n >= 0
       /\ LedgerCell(j, T_amount).n =
            AbsoluteValue(to_numeric(RawCell(ret.index[j], T_amount)).n)

\* a ledger row whose raw amount is negative
C6_Witness ==
  /\ call = "process_dataframe"
  /\ ret.status = "returned"
  /\ \E j \in 1..Len(ret.df.rows) :
        /\ to_numeric(RawCell(ret.index[j], T_amount)).n < 0
        /\ LedgerCell(j, T_amount).n > 0

\* C7: no row of the ledger has an empty description, and no row whose raw
\* description is missing is in the ledger.
C7_NoEmptyDescription ==
  (call \in ProcessCalls /\ ret.status = "returned") =>
    \A j \in 1..Len(ret.df.rows) :
       /\ LedgerCell(j, T_description).s # <<>>
       /\ RawCell(ret.index[j], T_description).k # "nan"

\* a label that says nothing: "" or "other" in any case
Meaningless(cell) == cell.k = "str" => Lower(cell.s) \in {<<>>, Lower(Other)}

\* C8: the supplied category column is kept when it has a label outside
\* {"", "other"}; otherwise every row gets the label auto_categorize gives
\* its description.
C8_CategoryResolution ==
  ( /\ call = "process_dataframe"
    /\ ret.status = "returned"
    /\ Cardinality(ColumnsNamed(Canonical(arg.df), T_category)) <= 1 )
  => LET supplied == HasColumn(Canonical(arg.df), T_category)
         kept == /\ supplied
                 /\ \E i \in 1..Len(arg.df.rows) :
                       ~Meaningless(RawCell(i, T_category))
     IN  \A j \in 1..Len(ret.df.rows) :
            LedgerCell(j, T_category) =
              IF kept THEN RawCell(ret.index[j], T_category)
              ELSE Str(auto_categorize(<<LedgerCell(j, T_description)>>)[1])

\* C9: the ledger is in ascending date order, and rows of equal date are in
\* the order they had in the argument.
C9_SortedStable ==
  (call \in ProcessCalls /\ ret.status = "returned") =>
    \A i, j \in 1..Len(ret.df.rows) :
       i < j =>
         /\ LedgerCell(i, T_date).n <= LedgerCell(j, T_date).n
         /\ LedgerCell(i, T_date).n = LedgerCell(j, T_date).n
               => ret.index[i] < ret.index[j]

\* C10: process_dataframe applied to a ledger it returned returns that same
\* ledger.
C10_Idempotent ==
  call = "reprocess" => (ret.status = "returned" /\ ret.df = arg.df)

\* the canonical columns of a ledger
LedgerColumns ==
  {T_date, T_amount, T_description, T_category, T_account, T_type}

\* C11: the ledger has the six canonical columns; without an account column
\* in the argument every row has the account "Main Account", without a type
\* column every row has the type "Expense", and a supplied account or type
\* column keeps, in every row, the value of the raw row it comes from.
C11_DefaultsAndSixColumns ==
  (call \in ProcessCalls /\ ret.status = "returned") =>
    /\ \A c \in LedgerColumns : HasColumn(ret.df.columns, c)
    /\ \A j \in 1..Len(ret.df.rows) :
          /\ LedgerCell(j, T_account) =
                IF HasColumn(Canonical(arg.df), T_account)
                THEN RawCell(ret.index[j], T_account)
                ELSE Str(<<"M","a","i","n"," ","A","c","c","o","u","n","t">>)
          /\ LedgerCell(j, T_type) =
                IF HasColumn(Canonical(arg.df), T_type)
                THEN RawCell(ret.index[j], T_type)
                ELSE Str(<<"E","x","p","e","n","s","e">>)

\* a ledger got both defaults
C11_Witness ==
  /\ call = "process_dataframe"
  /\ ret.status = "returned"
  /\ ~HasColumn(Canonical(arg.df), T_account)
  /\ ~HasColumn(Canonical(arg.df), T_type)
  /\ Len(ret.df.rows) = 2
  /\ \A j \in 1..2 :
        /\ LedgerCell(j, T_account).s = <<"M","a","i","n"," ","A","c","c","o","u","n","t">>
        /\ LedgerCell(j, T_type).s = <<"E","x","p","e","n","s","e">>

\* C12: after process_dataframe, whether it returned or raised, and after
\* validate_data_quality, the table the caller passed in has the column
\* labels, the rows and the values it had before the call.
C12_InputUntouched ==
  call \in ProcessCalls \cup {"validate_data_quality"} =>
    heap["caller"] = arg.df

\* a raw table whose labels the call re-cases or trims, and which it rejects
\* with the schema error
C12_Witness ==
  /\ call = "process_dataframe"
  /\ SchemaError
  /\ StandardizeNames(arg.df.columns) # arg.df.columns
  /\ heap["caller"] = arg.df

----------------------------------------------------------------------------
(* The metrics.                                                            *)

\* the table of the analyzer as its constructor leaves it for the ledger the
\* caller holds
Fresh == WithDerived(heap["caller"])

\* the results the last query can have on a freshly built analyzer
FreshResults ==
  LET fresh == [heap EXCEPT !["self_df"] = Fresh, !["passed"] = arg.df]
  IN  CASE call = "get_monthly_spending" -> get_monthly_spending(Fresh)
        [] call = "get_category_summary" -> get_category_summary(Fresh)
        [] call = "get_weekly_patterns" ->
             get_weekly_patterns(fresh, "self_df", arg.df # NoFrame)
        [] call = "get_seasonal_analysis" -> get_seasonal_analysis(Fresh)
        [] call = "get_yearly_comparison" -> get_yearly_comparison(Fresh)
        [] call = "calculate_growth_rates" -> calculate_growth_rates(Fresh)
        [] call = "detect_anomalies" -> detect_anomalies(Fresh)
        [] call = "generate_report" -> generate_report(Fresh, arg.series[1])

QueryCalls ==
  {"get_monthly_spending", "get_category_summary", "get_weekly_patterns",
   "get_seasonal_analysis", "get_yearly_comparison", "calculate_growth_rates",
   "detect_anomalies", "generate_report"}

\* C13: no query changes the table the caller holds or the table the
\* analyzer holds, and every query returns what it returns on a freshly
\* built analyzer.
C13_QueriesDoNotMutate ==
  /\ [][(self # "none" /\ self' = self) =>
          /\ heap'["caller"] = heap["caller"]
          /\ heap'[self] = heap[self]]_vars
  /\ [](call \in QueryCalls => ret \in FreshResults)

\* the amounts of the ledger the analyzer was built from, in cents
LedgerAmounts == AmountsAt(heap["caller"], 1..Len(heap["caller"].rows))

GrandTotal == SumOf(LedgerAmounts)

\* the category labels of the ledger
LedgerCategories ==
  {c \in Range(GetColumn(heap["caller"], T_category)) : ~isna(c)}

CategoryTotal(c) ==
  SumOf(AmountsAt(heap["caller"], GroupRows(heap["caller"], T_category, c)))

CategoryCount(c) == Cardinality(GroupRows(heap["caller"], T_category, c))

\* the cell of the i-th row of the returned view in the column of that name
ViewCell(i, name) == GetColumn(ret.df, name)[i]

Distance(a, b) == IF a < b THEN b - a ELSE a - b

SummaryReturned == call = "get_category_summary" /\ ret.status = "returned"

\* the summary has one row for every category of the ledger, with its total
SummaryOfCategories ==
  /\ {ViewCell(i, T_category) : i \in 1..Len(ret.df.rows)} = LedgerCategories
  /\ Len(ret.df.rows) = Cardinality(LedgerCategories)
  /\ \A i \in 1..Len(ret.df.rows) :
        ViewCell(i, T_amount) = Num(CategoryTotal(ViewCell(i, T_category)))
  /\ \A i, j \in 1..Len(ret.df.rows) :
        i < j => ViewCell(i, T_amount).n >= ViewCell(j, T_amount).n

\* every percentage is a number with one decimal, at most 0.05 from category
\* total / grand total * 100, and the percentages add up to 100 within 0.1
\* times the number of categories (percentages count hundredths of a percent)
PercentagesAddUp ==
  /\ \A i \in 1..Len(ret.df.rows) :
        LET p == ViewCell(i, <<"p","e","r","c","e","n","t","a","g","e">>)
        IN  /\ p.k = "num" /\ p.d = 1 /\ p.n % 10 = 0
            /\ Distance(p.n * GrandTotal,
                        10000 * CategoryTotal(ViewCell(i, T_category)))
                 <= 5 * GrandTotal
  /\ Distance(SumOf([i \in 1..Len(ret.df.rows) |->
                       ViewCell(i, <<"p","e","r","c","e","n","t","a","g","e">>).n]), 10000)
       <= 10 * Len(ret.df.rows)

\* C14: for every ledger the percentages of get_category_summary are category
\* total / grand total * 100 rounded to one decimal and add up to 100 within
\* 0.1 times the number of categories, and the rows are in falling order of
\* total.
C14_PercentagesSumTo100 ==
  SummaryReturned => (SummaryOfCategories /\ PercentagesAddUp)

\* a category of one transaction has no standard deviation
SingleHasNoStd ==
  \A i \in 1..Len(ret.df.rows) :
     CategoryCount(ViewCell(i, T_category)) = 1 =>
        ViewCell(i, <<"s","t","d","_","a","m","o","u","n","t">>) = NaN

WeeklyData == IF arg.df # NoFrame THEN arg.df ELSE heap["caller"]

\* the weekdays that occur in that table, counted from Monday = 0
WeekdaysPresent ==
  {weekday(GetColumn(WeeklyData, T_date)[i]) : i \in 1..Len(WeeklyData.rows)}

\* the weekday, counted from Monday = 0, that the i-th row of the view names
ViewWeekday(i) ==
  CHOOSE d \in 0..6 : day_order[d + 1] = ViewCell(i, T_day_of_week).s

\* C16: get_weekly_patterns, on the ledger of the analyzer or on a filtered
\* table passed in, returns at most 7 rows, exactly one for every weekday that
\* occurs in the data and none for any other, in the order Monday to Sunday.
C16_WeeklyPatternOrdered ==
  call = "get_weekly_patterns" =>
    /\ ret.status = "returned"
    /\ Len(ret.df.rows) <= 7
    /\ \A i \in 1..Len(ret.df.rows) :
          /\ ViewCell(i, T_day_of_week).k = "str"
          /\ ViewCell(i, T_day_of_week).s \in Range(day_order)
    /\ {ViewWeekday(i) : i \in 1..Len(ret.df.rows)} = WeekdaysPresent
    /\ Len(ret.df.rows) = Cardinality(WeekdaysPresent)
    /\ \A i, j \in 1..Len(ret.df.rows) : i < j => ViewWeekday(i) < ViewWeekday(j)

\* the pattern of a ledger with a Friday and then a Monday: Monday comes first
C16_Witness ==
  /\ call = "get_weekly_patterns"
  /\ ret.status = "returned"
  /\ Len(WeeklyData.rows) = 2
  /\ weekday(GetColumn(WeeklyData, T_date)[1]) = 4
  /\ weekday(GetColumn(WeeklyData, T_date)[2]) = 0
  /\ Len(ret.df.rows) = 2
  /\ ViewCell(1, T_day_of_week) = Str(<<"M","o","n","d","a","y">>)
  /\ ViewCell(2, T_day_of_week) = Str(<<"F","r","i","d","a","y">>)

\* the calendar months the ledger of the analyzer has transactions in
PopulatedMonths ==
  {to_period_M(GetColumn(heap["caller"], T_date)[i]) :
     i \in 1..Len(heap["caller"].rows)}

\* C17: calculate_growth_rates on a ledger whose transactions are all in one
\* calendar month returns an empty result: no row (so no NaN row and no
\* division by zero) and no exception.
C17_OneMonthGivesEmpty ==
  (call = "calculate_growth_rates" /\ Cardinality(PopulatedMonths) = 1) =>
     /\ ret.status = "returned"
     /\ ret.df.rows = <<>>

\* the growth rates of a ledger with two transactions in the same month
C17_Witness ==
  /\ call = "calculate_growth_rates"
  /\ Len(heap["caller"].rows) = 2
  /\ Cardinality(PopulatedMonths) = 1
  /\ ret.status = "returned"
  /\ ret.df.rows = <<>>

\* the populated months of the ledger in month order, and the total of each
SortedMonths == SortedKeys(PopulatedMonths)

MonthTotal(m) == SumOf(AmountsAt(Fresh, GroupRows(Fresh, T_month, m)))

GrowthReturned == call = "calculate_growth_rates" /\ ret.status = "returned"

\* the cell is the percentage change from previous to current (percentages
\* count hundredths of a percent)
IsChange(cell, previous, current) ==
  /\ cell.k = "num"
  /\ cell.n * previous = (current - previous) * 10000 * cell.d

\* the result has one row for every month after the first, in month order,
\* with the change from the month before
MonthOverMonth ==
  LET n == Len(SortedMonths)
  IN  /\ Len(ret.df.rows) = n - 1
      /\ \A i \in 2..n :
            Len(ret.df.rows) >= i - 1 =>
              /\ ViewCell(i - 1, T_month) = MonthStr(SortedMonths[i])
              /\ IsChange(ViewCell(i - 1, <<"m","o","m","_","g","r","o","w","t","h">>),
                          MonthTotal(SortedMonths[i - 1]),
                          MonthTotal(SortedMonths[i]))

\* the result has the column yoy_growth if and only if there are 12 populated
\* months or more, and a row of the i-th month, i > 12, has the change from
\* the month i - 12
YearOverYear ==
  LET n == Len(SortedMonths)
  IN  /\ HasColumn(ret.df.columns, <<"y","o","y","_","g","r","o","w","t","h">>) <=> n >= 12
      /\ n >= 12 =>
           \A r \in 1..Len(ret.df.rows) :
              \A i \in 13..n :
                 ViewCell(r, T_month) = MonthStr(SortedMonths[i]) =>
                    IsChange(ViewCell(r, <<"y","o","y","_","g","r","o","w","t","h">>),
                             MonthTotal(SortedMonths[i - 12]),
                             MonthTotal(SortedMonths[i]))

\* every month of the ledger has a total that is not 0
MonthsSpend == \A i \in 1..Len(SortedMonths) : MonthTotal(SortedMonths[i]) # 0

\* C18: calculate_growth_rates on a ledger of n >= 2 populated months (each
\* with a total that is not 0) returns the month-over-month change for each
\* of the n - 1 consecutive pairs of months, dropping only the first month,
\* and the year-over-year change against the month 12 places earlier once
\* there are 12 months or more.
C18_GrowthForEveryPair ==
  (call = "calculate_growth_rates" /\ Len(SortedMonths) >= 2 /\ MonthsSpend) =>
     /\ ret.status = "returned"
     /\ MonthOverMonth
     /\ YearOverYear

\* the years the ledger of the analyzer has transactions in
LedgerYears ==
  {YearOf(GetColumn(heap["caller"], T_date)[i]) :
     i \in 1..Len(heap["caller"].rows)}

\* the triples (year, month abbreviation, total) of the populated months
YearMonthTriples ==
  {<<Count(m.n \div 100), Str(month_abbr[m.n % 100]), Num(MonthTotal(m))>> :
     m \in PopulatedMonths}

\* C19: get_yearly_comparison never raises; on a ledger of fewer than 2 years
\* it returns an empty result, and on a ledger of 2 years or more one triple
\* (year, month abbreviation, total) for every populated pair of year and
\* month and no other.
C19_YearlyTriples ==
  call = "get_yearly_comparison" =>
    /\ ret.status = "returned"
    /\ Cardinality(LedgerYears) < 2 => ret.df.rows = <<>>
    /\ Cardinality(LedgerYears) >= 2 =>
          /\ Len(ret.df.rows) = Cardinality(PopulatedMonths)
          /\ {<<ViewCell(i, T_year), ViewCell(i, T_month), ViewCell(i, T_amount)>> :
                i \in 1..Len(ret.df.rows)} = YearMonthTriples

\* the rows of the ledger that the last calculate_category_metrics call asks
\* for: one of the chosen categories, dated within the range
MatchedRows ==
  {i \in 1..Len(heap["caller"].rows) :
     /\ GetColumn(heap["caller"], T_category)[i] \in Range(SubSeq(arg.series, 3, Len(arg.series)))
     /\ arg.series[1].n <= GetColumn(heap["caller"], T_date)[i].n
     /\ GetColumn(heap["caller"], T_date)[i].n <= arg.series[2].n}

\* the months in which the category of the last get_category_predictions call
\* has transactions
HistoricalMonths ==
  {to_period_M(GetColumn(heap["caller"], T_date)[i]) :
     i \in {j \in 1..Len(heap["caller"].rows) :
              GetColumn(heap["caller"], T_category)[j] = arg.series[1]}}

\* the result is a value with an error field
HasErrorField == ret.status = "returned" /\ ret.msg # ""

\* C20: calculate_category_metrics and get_category_predictions never raise;
\* the result of calculate_category_metrics has an error field exactly when
\* the filter matches no row, and the result of get_category_predictions has
\* one, and no list of predictions, exactly when the category has fewer than
\* 2 months of history.
C20_SoftFail ==
  /\ call = "calculate_category_metrics" =>
        /\ ret.status = "returned"
        /\ HasErrorField <=> MatchedRows = {}
  /\ call = "get_category_predictions" =>
        /\ ret.status = "returned"
        /\ HasErrorField <=> Cardinality(HistoricalMonths) < 2
        /\ HasErrorField => ret.labels = <<>>

\* the rows of the ledger in the first period of the last
\* compare_category_periods call: of the category, dated within the period
Period1Rows ==
  {i \in 1..Len(heap["caller"].rows) :
     /\ GetColumn(heap["caller"], T_category)[i] = arg.series[1]
     /\ arg.series[2].n <= GetColumn(heap["caller"], T_date)[i].n
     /\ GetColumn(heap["caller"], T_date)[i].n <= arg.series[3].n}

Period1Total == SumOf(AmountsAt(heap["caller"], Period1Rows))

\* C21: compare_category_periods never raises; when the total of the first
\* period is 0 the result carries total_change_pct as an explicit undefined
\* or unbounded marker (a missing value or an infinity), not 0.
C21_ZeroBaselineMarked ==
  call = "compare_category_periods" =>
    /\ ret.status = "returned"
    /\ Period1Total = 0 =>
          /\ HasColumn(ret.df.columns, <<"t","o","t","a","l","_","c","h","a","n","g","e","_","p","c","t">>)
          /\ ViewCell(1, <<"t","o","t","a","l","_","c","h","a","n","g","e","_","p","c","t">>).k \in {"nan", "inf"}




\* C22: no insight rule raises on any ledger (the empty one, a single-row
\* one, one with equal or zero amounts), and generate_all_insights returns,
\* with every rule's key followed by that rule's observations.
InsightCalls ==
  {"analyze_spending_patterns", "analyze_category_behavior",
   "analyze_temporal_patterns", "detect_unusual_behavior",
   "identify_savings_opportunities", "assess_financial_health"}

C22_NoRuleRaises ==
  /\ call \in InsightCalls => ret.status = "returned"
  /\ call = "generate_all_insights" =>
        /\ ret.status = "returned"
        /\ \A i \in 1..6 : \E j \in 1..Len(ret.labels) : ret.labels[j] = InsightKeys[i]


\* C28: one DataCleanup never has two cleanup loop threads alive, whatever
\* the interleaving of the start and stop calls.
AliveThreads == {t \in Threads : Thread_is_alive(cleanup.threads[t])}

C28_OneLoopThread == Cardinality(AliveThreads) <= 1

\* C29: the scheduler follows the last call.  When the last call to return
\* is a stop, the loop threads end; when it is a start, a loop keeps
\* sweeping.
Sweeping == \E t \in Threads : cleanup.threads[t] = "sweep"

C29_FollowsLastCall ==
  /\ <>[](cleanup.last = "stop") => <>[](AliveThreads = {})
  /\ <>[](cleanup.last = "start") => []<>Sweeping

\* C27: over any sequence of scrapes, in any environment, a driver is never
\* asked to load a page after it was quit: the driver on which the last
\* scrape ran driver.get(url) was live
C27_PageLoadedOnLiveDriver == web.log.got # "quit"

\* the values of _data_source that say sample data
SampleSources == {<<"s","a","m","p","l","e">>, <<"s","a","m","p","l","e","_","f","a","l","l","b","a","c","k">>}

MarkedAsSample(df) ==
  \/ MarkedSample(df)
  \/ /\ HasColumn(df.columns, T_data_source)
     /\ GetColumn(df, T_data_source)[1].s \in SampleSources

\* C23: sample data put in the place of real data is marked as sample on
\* every path, real scraped data is never marked as sample, and the ledger
\* the session holds after such a load still carries the mark
C23_SampleDataStaysMarked ==
  /\ web.log.sample => web.log.marked \/ web.log.source \in SampleSources
  /\ web.log.rows > 0 /\ ~web.log.sample
       => ~web.log.marked /\ web.log.source = <<"n","o","t","i","o","n">>
  /\ session.origin = "notion" /\ web.log.sample => MarkedAsSample(session.df[1])

\* the order of the methods of one load, and rows at its end
FallbackOrder ==
  /\ web.log.tried # <<>> => Head(web.log.tried) = "selenium"
  /\ web.log.tried \in {<<>>, <<"selenium">>, <<"selenium", "requests">>,
                        <<"selenium", "sample">>,
                        <<"selenium", "requests", "sample">>}
  /\ "requests" \in Range(web.log.tried) => web.log.selenium_rows = 0
  /\ web.log.tried # <<>> => web.log.rows > 0

\* C26: a load from a Notion URL tries Selenium first, tries requests only
\* when Selenium produced no rows, puts sample data in only when both
\* produced no rows or an error occurred, and returns a table with rows
C26_SampleOnlyWithoutRowsOrOnError ==
  /\ FallbackOrder
  /\ web.log.sample
       => \/ web.log.selenium_rows = 0 /\ web.log.requests_rows = 0
          \/ web.log.error

\* C26 as amended: sample data is also put in when rows were scraped and
\* none of them is left after cleaning and normalization
C26_SampleOnlyWithoutValidRowsOrOnError ==
  /\ FallbackOrder
  /\ web.log.sample
       => \/ web.log.selenium_rows = 0 /\ web.log.requests_rows = 0
          \/ web.log.error
          \/ web.log.valid_rows = 0
  /\ (web.log.sample <=> "sample" \in Range(web.log.tried))

\* the rows Selenium scraped were all dropped, without an error, and the
\* session holds sample data
C26_Witness ==
  /\ web.log.sample
  /\ ~web.log.error
  /\ web.log.selenium_rows > 0
  /\ web.log.tried = <<"selenium", "sample">>
  /\ session.origin = "notion"

\* the ledger of spec section 3: the six columns, every row with a date, a
\* non-negative amount and a description that is not empty, in date order
FullyNormalized(df) ==
  /\ \A name \in Range(LedgerLayout) : HasColumn(df.columns, name)
  /\ \A i \in 1..Len(df.rows) :
        /\ GetColumn(df, T_date)[i].k = "ts"
        /\ GetColumn(df, T_amount)[i].k = "num"
        /\ GetColumn(df, T_amount)[i].n >= 0
        /\ GetColumn(df, T_description)[i].k = "str"
        /\ GetColumn(df, T_description)[i].s # <<>>
  /\ \A i, j \in 1..Len(df.rows) :
        i < j => GetColumn(df, T_date)[i].n <= GetColumn(df, T_date)[j].n

\* C24: data_loaded is true only when the session holds a ledger that is
\* not None and fully normalized; an analysis runs only on loaded data, and
\* while data_loaded is false an analysis page shows the upload prompt and
\* nothing else.
C24_LoadedMeansNormalizedLedger ==
  /\ session.data_loaded =>
        /\ session.df # <<>>
        /\ FullyNormalized(session.df[1])
  /\ session.shown.analysis => session.data_loaded
  /\ (~session.data_loaded /\ session.shown.page \notin {"none", "Data Upload"})
        => session.shown = UploadPrompt(session.shown.page)

\* C24, the failed load: a run of the upload page that ends with an error
\* leaves data_loaded and the stored ledger as they were.
C24_FailedLoadChangesNothing ==
  [][session'.shown.status = "error"
       => /\ session'.data_loaded = session.data_loaded
          /\ session'.df = session.df]_vars

\* C25: no run of a page other than the upload page alters the ledger the
\* session holds: whatever pages are visited, filters, searches and sorts
\* chosen and pagination buttons pressed, it keeps the rows, their order and
\* the columns it was loaded with; what a filter leaves is a table of its
\* own.
C25_StoredLedgerKept ==
  [][session'.shown.page # "Data Upload" => session'.df = session.df]_vars

\* the preview page drawn with a category chosen that leaves some rows out,
\* on another page than the first one seen, over the sample ledger as it
\* was loaded
C25_Witness ==
  /\ session.origin = "sample"
  /\ session.shown.page = "Data Preview"
  /\ session.widgets.category # <<"A","l","l">>
  /\ session.preview_page > 1
  /\ session.shown.matching \in 1..(SampleRows - 1)
  /\ session.df = <<create_sample_data(SampleRows)>>

\* C30: whenever the preview page comes to draw its page selector, the page
\* number the session holds is one of 1..total_pages, whatever buttons were
\* pressed, pages selected and filters or searches changed before; the
\* selector is then drawn and the run does not raise.
C30_PageWithinPages ==
  (session.shown.page = "Data Preview" /\ session.shown.total_pages > 0)
     => /\ PageOr1(session.preview_page) \in 1..session.shown.total_pages
        /\ session.shown.status = "shown"

====
